---- MODULE Spec2Model ----
(***************************************************************************)
(* Model of the benchmarktours backend: the post-tour read-only gate over  *)
(* notes / discussions / messages / teams / team notes / questions, and    *)
(* the survey response engine (submit, saveProgress, submitAnonymous).     *)
(* Tables are sets of rows; every service function is one action.          *)
(***************************************************************************)
EXTENDS Integers, Sequences, FiniteSets, TLC

(* ---------------------------- bounds ----------------------------------- *)
MaxTime == 2
MaxId == 2
MaxResp == 2
MaxToken == 2
MaxAnswers == 2
MaxCalls == 3
MaxStatResp == 3

(* --------------------------- constants --------------------------------- *)
\* SQL NULL in a numeric column (ids, numbers, timestamps are all >= 0)
NULL == 0 - 1
\* an optional request field: {} when the field is not given, {v} when it is
Coalesce(opt, old) == IF opt = {} THEN old ELSE CHOOSE v \in opt : TRUE
Optional(S) == {{}} \cup { {v} : v \in S }
\* the lifetime of a public access token, in steps of the clock
\* (NOW() + INTERVAL '1 year')
TokenLifetime == 1
UserIds == {"u1", "u2"}
TourIds == {1}
ActivityIdInputs == {1, 2}
Contents == {"a", "b"}
TimeRange == 0..MaxTime

VARIABLES
    now,        \* the wall clock (new Date() / NOW())
    db,         \* the tour-side tables, one field per table
    nextId,     \* the SERIAL sequence the tour-side tables draw ids from
    lastReq,    \* outcome of the last mutating tour-side request
    sdb,        \* the survey-side tables (committed rows), one field per table
    respSeq,    \* the SERIAL sequence of survey_responses.id
    tokenSeq,   \* the next public access token gen_random_uuid() returns
    lastCall,   \* outcome of the last survey-side call
    proc,       \* the requests in flight, one record per request slot
    conn        \* the pooled database connections and their open transactions

gateVars == <<db, nextId, lastReq>>

poolVars == <<proc, conn>>

surveyVars == <<sdb, respSeq, tokenSeq, lastCall, poolVars>>

vars == <<now, gateVars, surveyVars>>

(* ------------------------ the read-only gate --------------------------- *)
\* a decision that already rejects at now = end_date
GateDecisionAtEnd(endDates) ==
    IF endDates = {} THEN "NotFound"
    ELSE IF now >= (CHOOSE e \in endDates : TRUE) THEN "TourEnded"
    ELSE "Ok"

\* the three-way decision every checkTourReadOnly* function takes on the
\* end_date rows its join chain returned
GateDecision(endDates) ==
    IF endDates = {} THEN "NotFound"
    ELSE IF now > (CHOOSE e \in endDates : TRUE) THEN "TourEnded"
    ELSE "Ok"

EndDatesOfTour(tourId) == { t.end_date : t \in { x \in db.tours : x.id = tourId } }

\* the end_date read skipped for an activity that already has a note (an
\* acceptance that is remembered)
EndDatesUnlessAccepted(activityId) ==
    IF \E n \in db.notes : n.activity_id = activityId THEN {}
    ELSE UNION { EndDatesOfTour(a.tour_id) :
                   a \in { x \in db.activities : x.id = activityId } }

EndDatesOfActivity(activityId) ==
    UNION { EndDatesOfTour(a.tour_id) : a \in { x \in db.activities : x.id = activityId } }

EndDatesOfDiscussion(discussionId) ==
    UNION { EndDatesOfTour(d.tour_id) : d \in { x \in db.discussions : x.id = discussionId } }

EndDatesOfNote(noteId) ==
    UNION { EndDatesOfActivity(n.activity_id) : n \in { x \in db.notes : x.id = noteId } }

EndDatesOfTeam(teamId) ==
    UNION { EndDatesOfActivity(dt.discussion_activity_id) :
              dt \in { x \in db.discussion_teams : x.id = teamId } }

EndDatesOfTeamNote(noteId) ==
    UNION { EndDatesOfTeam(dtn.team_id) :
              dtn \in { x \in db.discussion_team_notes : x.id = noteId } }

EndDatesOfMessage(messageId) ==
    UNION { EndDatesOfDiscussion(dm.discussion_id) :
              dm \in { x \in db.discussion_messages : x.id = messageId } }

EndDatesOfQuestion(questionId) ==
    UNION { EndDatesOfActivity(aq.activity_id) :
              aq \in { x \in db.activity_questions : x.id = questionId } }

EndDatesOfDiscussionQuestion(questionId) ==
    UNION { EndDatesOfActivity(dq.discussion_activity_id) :
              dq \in { x \in db.discussion_questions : x.id = questionId } }

checkTourReadOnly(activityId) == GateDecision(EndDatesOfActivity(activityId))
checkTourReadOnlyByTourId(tourId) == GateDecision(EndDatesOfTour(tourId))
checkTourReadOnlyByDiscussionId(discussionId) == GateDecision(EndDatesOfDiscussion(discussionId))
checkTourReadOnlyByNoteId(noteId) == GateDecision(EndDatesOfNote(noteId))
checkTourReadOnlyByTeamId(teamId) == GateDecision(EndDatesOfTeam(teamId))
checkTourReadOnlyByTeamNoteId(noteId) == GateDecision(EndDatesOfTeamNote(noteId))
checkTourReadOnlyByMessageId(messageId) == GateDecision(EndDatesOfMessage(messageId))
checkTourReadOnlyByQuestionId(questionId) == GateDecision(EndDatesOfQuestion(questionId))
checkTourReadOnlyByDiscussionQuestionId(questionId) ==
    GateDecision(EndDatesOfDiscussionQuestion(questionId))

(* --------------------------- bookkeeping ------------------------------- *)
\* the message of the error thrown for an ended tour
TourEndedMessage == "This tour has ended and is now read-only"

\* res.status(status).json({ error }) ("none" for a body without error)
Response(status, error) == [status |-> status, error |-> error]

\* the catch block of a handler that looks for the read-only message
\* (handleReadOnlyError, errorMessage.includes(..)): 403 with the message of
\* the error, 500 with the handler's own message for every other error
ReadOnlyCatch(thrown, defaultMessage) ==
    IF thrown = TourEndedMessage THEN Response(403, thrown)
    ELSE Response(500, defaultMessage)

\* the outcome of the mutating request handled by the last step (NoReq after
\* any other step): which operation on which entity kind, what the gate of
\* that kind's join chain says at the time of the request, whether the
\* request changed storage, the error the service threw ("none" if it
\* returned) and the response of the controller
Req(op, kind, gate, ok, thrown, res) ==
    [op |-> op, kind |-> kind, gate |-> gate, ok |-> ok, thrown |-> thrown,
     status |-> res.status, error |-> res.error]

NoReq == Req("none", "none", "Ok", FALSE, "none", Response(NULL, "none"))

CanAllocate == nextId <= MaxId

(* ------------------------------ notes ---------------------------------- *)
ActivityExists(activityId) == \E a \in db.activities : a.id = activityId

\* a createNote whose INSERT comes before its read of end_date
createNoteInsertFirst(user_id, activity_id, content, question_id) ==
    LET tourCheck == EndDatesOfActivity(activity_id)
        gate == checkTourReadOnly(activity_id)
    IN  /\ CanAllocate
        /\ ActivityExists(activity_id)
        /\ question_id = NULL
        /\ db' = [db EXCEPT !.notes = @ \cup
                     {[id |-> nextId, user_id |-> user_id,
                       activity_id |-> activity_id, content |-> content,
                       question_id |-> question_id]}]
        /\ nextId' = nextId + 1
        /\ lastReq' = IF now > (CHOOSE e \in tourCheck : TRUE)
                        THEN Req("createNote", "Note", gate, TRUE, TourEndedMessage,
                                 Response(500, "Failed to create note"))
                        ELSE Req("createNote", "Note", gate, TRUE, "none",
                                 Response(201, "none"))
        /\ UNCHANGED <<now, surveyVars>>

\* createNote: the only note operation that reads end_date; an activity id
\* that resolves no row skips the check and fails on the foreign key.  The
\* handler of POST /activities/:activityId/notes answers every error with 500.
createNote(user_id, activity_id, content, question_id) ==
    LET tourCheck == EndDatesOfActivity(activity_id)
        gate == checkTourReadOnly(activity_id)
        fkOk == /\ ActivityExists(activity_id)
                /\ question_id = NULL \/ \E q \in db.activity_questions : q.id = question_id
    IN  /\ CanAllocate
        /\ IF tourCheck # {} /\ now > (CHOOSE e \in tourCheck : TRUE)
             THEN /\ lastReq' = Req("createNote", "Note", gate, FALSE, TourEndedMessage,
                                    Response(500, "Failed to create note"))
                  /\ UNCHANGED <<db, nextId>>
           ELSE IF ~fkOk
             THEN /\ lastReq' = Req("createNote", "Note", gate, FALSE, "23503",
                                    Response(500, "Failed to create note"))
                  /\ UNCHANGED <<db, nextId>>
           ELSE /\ db' = [db EXCEPT !.notes = @ \cup
                            {[id |-> nextId, user_id |-> user_id,
                              activity_id |-> activity_id, content |-> content,
                              question_id |-> question_id]}]
                /\ nextId' = nextId + 1
                /\ lastReq' = Req("createNote", "Note", gate, TRUE, "none",
                                  Response(201, "none"))
        /\ UNCHANGED <<now, surveyVars>>

updateNote(id, content, userId) ==
    LET hit == { n \in db.notes : n.id = id /\ n.user_id = userId }
    IN  /\ db' = [db EXCEPT !.notes =
                    (@ \ hit) \cup { [n EXCEPT !.content = content] : n \in hit }]
        /\ lastReq' = Req("updateNote", "Note", checkTourReadOnlyByNoteId(id), hit # {},
                          "none",
                          IF hit = {} THEN Response(404, "Note not found or access denied")
                          ELSE Response(200, "none"))
        /\ UNCHANGED <<now, nextId, surveyVars>>

deleteNote(id, userId) ==
    LET hit == { n \in db.notes : n.id = id /\ n.user_id = userId }
    IN  /\ db' = [db EXCEPT !.notes = @ \ hit]
        /\ lastReq' = Req("deleteNote", "Note", checkTourReadOnlyByNoteId(id), hit # {},
                          "none",
                          IF hit = {} THEN Response(404, "Note not found or access denied")
                          ELSE Response(200, "none"))
        /\ UNCHANGED <<now, nextId, surveyVars>>

(* --------------------------- discussions ------------------------------- *)
TourExists(tourId) == \E t \in db.tours : t.id = tourId

\* (created_by is stored but read by no service function; it is left out)
createDiscussion(tour_id, created_by, title) ==
    /\ CanAllocate
    /\ IF TourExists(tour_id)
         THEN /\ db' = [db EXCEPT !.discussions = @ \cup
                          {[id |-> nextId, tour_id |-> tour_id, activity_id |-> NULL,
                            title |-> title, is_locked |-> FALSE]}]
              /\ nextId' = nextId + 1
              /\ lastReq' = Req("createDiscussion", "Discussion",
                                checkTourReadOnlyByTourId(tour_id), TRUE, "none",
                                Response(201, "none"))
       ELSE /\ lastReq' = Req("createDiscussion", "Discussion",
                              checkTourReadOnlyByTourId(tour_id), FALSE, "23503",
                              Response(500, "Failed to create discussion"))
            /\ UNCHANGED <<db, nextId>>
    /\ UNCHANGED <<now, surveyVars>>

\* title / is_locked are optional: COALESCE keeps the stored value
updateDiscussion(id, title, is_locked) ==
    LET hit == { d \in db.discussions : d.id = id }
        upd(d) == [d EXCEPT !.title = Coalesce(title, @),
                            !.is_locked = Coalesce(is_locked, @)]
    IN  /\ db' = [db EXCEPT !.discussions = (@ \ hit) \cup { upd(d) : d \in hit }]
        /\ lastReq' = Req("updateDiscussion", "Discussion",
                          checkTourReadOnlyByDiscussionId(id), hit # {}, "none",
                          IF hit = {} THEN Response(404, "Discussion not found")
                          ELSE Response(200, "none"))
        /\ UNCHANGED <<now, nextId, surveyVars>>

\* ON DELETE CASCADE: the messages of the discussion and their reactions go too
deleteDiscussion(id) ==
    LET hit == { d \in db.discussions : d.id = id }
        goneMsgs == { m \in db.discussion_messages : m.discussion_id = id }
        goneIds == { m.id : m \in goneMsgs }
    IN  /\ db' = [db EXCEPT !.discussions = @ \ hit,
                            !.discussion_messages = @ \ goneMsgs,
                            !.message_reactions =
                                { r \in @ : r.message_id \notin goneIds }]
        /\ lastReq' = Req("deleteDiscussion", "Discussion",
                          checkTourReadOnlyByDiscussionId(id), hit # {}, "none",
                          IF hit = {} THEN Response(404, "Discussion not found")
                          ELSE Response(200, "none"))
        /\ UNCHANGED <<now, nextId, surveyVars>>

(* ---------------------------- messages --------------------------------- *)
createMessage(discussion_id, user_id, content) ==
    LET discussionCheck == { d \in db.discussions : d.id = discussion_id }
        gate == checkTourReadOnlyByDiscussionId(discussion_id)
    IN  /\ CanAllocate
        /\ IF \E d \in discussionCheck : d.is_locked
             THEN /\ lastReq' = Req("createMessage", "DiscussionMessage", gate, FALSE,
                                    "Discussion is locked",
                                    Response(403, "Discussion is locked"))
                  /\ UNCHANGED <<db, nextId>>
           ELSE IF discussionCheck = {}
             THEN /\ lastReq' = Req("createMessage", "DiscussionMessage", gate, FALSE,
                                    "23503", ReadOnlyCatch("23503", "Failed to create message"))
                  /\ UNCHANGED <<db, nextId>>
           ELSE /\ db' = [db EXCEPT !.discussion_messages = @ \cup
                            {[id |-> nextId, discussion_id |-> discussion_id,
                              user_id |-> user_id, content |-> content,
                              is_edited |-> FALSE]}]
                /\ nextId' = nextId + 1
                /\ lastReq' = Req("createMessage", "DiscussionMessage", gate, TRUE, "none",
                                  Response(201, "none"))
        /\ UNCHANGED <<now, surveyVars>>

updateMessage(id, userId, content) ==
    LET hit == { m \in db.discussion_messages : m.id = id /\ m.user_id = userId }
    IN  /\ db' = [db EXCEPT !.discussion_messages = (@ \ hit) \cup
                    { [m EXCEPT !.content = content, !.is_edited = TRUE] : m \in hit }]
        /\ lastReq' = Req("updateMessage", "DiscussionMessage",
                          checkTourReadOnlyByMessageId(id), hit # {}, "none",
                          IF hit = {} THEN Response(404, "Message not found or not authorized")
                          ELSE Response(200, "none"))
        /\ UNCHANGED <<now, nextId, surveyVars>>

deleteMessage(id, userId) ==
    LET hit == { m \in db.discussion_messages : m.id = id /\ m.user_id = userId }
    IN  /\ db' = [db EXCEPT !.discussion_messages = @ \ hit,
                            !.message_reactions =
                                IF hit = {} THEN @ ELSE { r \in @ : r.message_id # id }]
        /\ lastReq' = Req("deleteMessage", "DiscussionMessage",
                          checkTourReadOnlyByMessageId(id), hit # {}, "none",
                          IF hit = {} THEN Response(404, "Message not found or not authorized")
                          ELSE Response(200, "none"))
        /\ UNCHANGED <<now, nextId, surveyVars>>

MessageExists(messageId) == \E m \in db.discussion_messages : m.id = messageId

\* ON CONFLICT DO NOTHING: a repeated reaction changes nothing
addReaction(messageId, userId) ==
    LET row == [message_id |-> messageId, user_id |-> userId]
        fresh == MessageExists(messageId) /\ row \notin db.message_reactions
    IN  /\ db' = [db EXCEPT !.message_reactions =
                    IF fresh THEN @ \cup {row} ELSE @]
        /\ lastReq' = IF MessageExists(messageId)
                         THEN Req("addReaction", "DiscussionMessage",
                                  checkTourReadOnlyByMessageId(messageId), fresh, "none",
                                  Response(201, "none"))
                         ELSE Req("addReaction", "DiscussionMessage",
                                  checkTourReadOnlyByMessageId(messageId), FALSE, "23503",
                                  ReadOnlyCatch("23503", "Failed to add reaction"))
        /\ UNCHANGED <<now, nextId, surveyVars>>

removeReaction(messageId, userId) ==
    LET row == [message_id |-> messageId, user_id |-> userId]
    IN  /\ db' = [db EXCEPT !.message_reactions = @ \ {row}]
        /\ lastReq' = Req("removeReaction", "DiscussionMessage",
                          checkTourReadOnlyByMessageId(messageId),
                          row \in db.message_reactions, "none",
                          IF row \in db.message_reactions THEN Response(200, "none")
                          ELSE Response(404, "Reaction not found"))
        /\ UNCHANGED <<now, nextId, surveyVars>>

\* createActivityMessage: reads the tour through the activity, rejects an
\* ended tour, reuses or creates the activity's discussion, inserts the message
createActivityMessage(activityId, user_id, content) ==
    LET activityCheck == { a \in db.activities : a.id = activityId }
        gate == checkTourReadOnly(activityId)
        existingDiscussion == { d \in db.discussions : d.activity_id = activityId }
    IN  /\ nextId + (IF existingDiscussion = {} THEN 1 ELSE 0) <= MaxId
        /\ IF activityCheck = {}
             THEN /\ lastReq' = Req("createActivityMessage", "DiscussionMessage", gate, FALSE,
                                    "Activity not found",
                                    ReadOnlyCatch("Activity not found",
                                                  "Failed to create message"))
                  /\ UNCHANGED <<db, nextId>>
           ELSE IF gate = "TourEnded"
             THEN /\ lastReq' = Req("createActivityMessage", "DiscussionMessage", gate, FALSE,
                                    TourEndedMessage,
                                    ReadOnlyCatch(TourEndedMessage,
                                                  "Failed to create message"))
                  /\ UNCHANGED <<db, nextId>>
           ELSE IF existingDiscussion # {}
             THEN \E d \in existingDiscussion :
                  /\ db' = [db EXCEPT !.discussion_messages = @ \cup
                              {[id |-> nextId, discussion_id |-> d.id,
                                user_id |-> user_id, content |-> content,
                                is_edited |-> FALSE]}]
                  /\ nextId' = nextId + 1
                  /\ lastReq' = Req("createActivityMessage", "DiscussionMessage", gate, TRUE,
                                      "none", Response(201, "none"))
           ELSE LET a == CHOOSE x \in activityCheck : TRUE
                IN  /\ db' = [db EXCEPT
                              !.discussions = @ \cup
                                {[id |-> nextId, tour_id |-> a.tour_id,
                                  activity_id |-> activityId,
                                  title |-> "activity", is_locked |-> FALSE]},
                              !.discussion_messages = @ \cup
                                {[id |-> nextId + 1, discussion_id |-> nextId,
                                  user_id |-> user_id, content |-> content,
                                  is_edited |-> FALSE]}]
                    /\ nextId' = nextId + 2
                    /\ lastReq' = Req("createActivityMessage", "DiscussionMessage", gate, TRUE,
                                      "none", Response(201, "none"))
        /\ UNCHANGED <<now, surveyVars>>

(* ------------------------ activity questions --------------------------- *)
createActivityQuestion(activityId, userId) ==
    LET gate == checkTourReadOnly(activityId)
    IN  /\ CanAllocate
        /\ IF ActivityExists(activityId)
             THEN /\ db' = [db EXCEPT !.activity_questions = @ \cup
                              {[id |-> nextId, activity_id |-> activityId,
                                user_id |-> userId]}]
                  /\ nextId' = nextId + 1
                  /\ lastReq' = Req("createQuestion", "ActivityQuestion", gate, TRUE, "none",
                                    Response(201, "none"))
           ELSE /\ lastReq' = Req("createQuestion", "ActivityQuestion", gate, FALSE, "23503",
                                  Response(500, "Failed to create question"))
                /\ UNCHANGED <<db, nextId>>
        /\ UNCHANGED <<now, surveyVars>>

\* deleteAnswers removes the user's notes that answer the question first;
\* the notes left behind lose their question_id (ON DELETE SET NULL)
deleteActivityQuestion(questionId, userId, deleteAnswers) ==
    LET hit == { q \in db.activity_questions : q.id = questionId /\ q.user_id = userId }
        answers == IF deleteAnswers
                     THEN { n \in db.notes : n.question_id = questionId /\ n.user_id = userId }
                     ELSE {}
        kept == db.notes \ answers
    IN  /\ db' = [db EXCEPT
                    !.activity_questions = @ \ hit,
                    !.notes = IF hit = {} THEN kept
                              ELSE { IF n.question_id = questionId
                                       THEN [n EXCEPT !.question_id = NULL] ELSE n
                                     : n \in kept }]
        /\ lastReq' = Req("deleteQuestion", "ActivityQuestion",
                          checkTourReadOnlyByQuestionId(questionId), hit # {}, "none",
                          IF hit = {} THEN Response(404, "Question not found or unauthorized")
                          ELSE Response(200, "none"))
        /\ UNCHANGED <<now, nextId, surveyVars>>

(* -------------------------- discussion teams --------------------------- *)
createTeam(discussionActivityId, name) ==
    LET gate == checkTourReadOnly(discussionActivityId)
    IN  /\ CanAllocate
        /\ IF ActivityExists(discussionActivityId)
             THEN /\ db' = [db EXCEPT !.discussion_teams = @ \cup
                              {[id |-> nextId,
                                discussion_activity_id |-> discussionActivityId,
                                name |-> name]}]
                  /\ nextId' = nextId + 1
                  /\ lastReq' = Req("createTeam", "DiscussionTeam", gate, TRUE, "none",
                                    Response(201, "none"))
           ELSE /\ lastReq' = Req("createTeam", "DiscussionTeam", gate, FALSE, "23503",
                                  ReadOnlyCatch("23503", "Failed to create team"))
                /\ UNCHANGED <<db, nextId>>
        /\ UNCHANGED <<now, surveyVars>>

updateTeam(teamId, name) ==
    LET hit == { t \in db.discussion_teams : t.id = teamId }
    IN  /\ db' = [db EXCEPT !.discussion_teams =
                    (@ \ hit) \cup { [t EXCEPT !.name = name] : t \in hit }]
        /\ lastReq' = Req("updateTeam", "DiscussionTeam",
                          checkTourReadOnlyByTeamId(teamId), hit # {}, "none",
                          Response(200, "none"))
        /\ UNCHANGED <<now, nextId, surveyVars>>

\* ON DELETE CASCADE: the notes of the team go with it
deleteTeam(teamId) ==
    LET hit == { t \in db.discussion_teams : t.id = teamId }
    IN  /\ db' = [db EXCEPT !.discussion_teams = @ \ hit,
                            !.discussion_team_notes = { n \in @ : n.team_id # teamId }]
        /\ lastReq' = Req("deleteTeam", "DiscussionTeam",
                          checkTourReadOnlyByTeamId(teamId), hit # {}, "none",
                          Response(204, "none"))
        /\ UNCHANGED <<now, nextId, surveyVars>>

(* ------------------------ discussion questions ------------------------- *)
createDiscussionQuestion(discussionActivityId, question_text) ==
    LET gate == checkTourReadOnly(discussionActivityId)
    IN  /\ CanAllocate
        /\ IF ActivityExists(discussionActivityId)
             THEN /\ db' = [db EXCEPT !.discussion_questions = @ \cup
                              {[id |-> nextId,
                                discussion_activity_id |-> discussionActivityId,
                                question_text |-> question_text]}]
                  /\ nextId' = nextId + 1
                  /\ lastReq' = Req("createQuestion", "DiscussionQuestion", gate, TRUE,
                                    "none", Response(201, "none"))
           ELSE /\ lastReq' = Req("createQuestion", "DiscussionQuestion", gate, FALSE,
                                  "23503", ReadOnlyCatch("23503", "Failed to create question"))
                /\ UNCHANGED <<db, nextId>>
        /\ UNCHANGED <<now, surveyVars>>

updateDiscussionQuestion(questionId, question_text) ==
    LET hit == { q \in db.discussion_questions : q.id = questionId }
    IN  /\ db' = [db EXCEPT !.discussion_questions =
                    (@ \ hit) \cup { [q EXCEPT !.question_text = question_text] : q \in hit }]
        /\ lastReq' = Req("updateQuestion", "DiscussionQuestion",
                          checkTourReadOnlyByDiscussionQuestionId(questionId), hit # {},
                          "none", Response(200, "none"))
        /\ UNCHANGED <<now, nextId, surveyVars>>

\* ON DELETE SET NULL: team notes that answered the question become general
deleteDiscussionQuestion(questionId) ==
    LET hit == { q \in db.discussion_questions : q.id = questionId }
    IN  /\ db' = [db EXCEPT
                    !.discussion_questions = @ \ hit,
                    !.discussion_team_notes =
                        { IF n.question_id = questionId
                            THEN [n EXCEPT !.question_id = NULL] ELSE n : n \in @ }]
        /\ lastReq' = Req("deleteQuestion", "DiscussionQuestion",
                          checkTourReadOnlyByDiscussionQuestionId(questionId), hit # {},
                          "none", Response(204, "none"))
        /\ UNCHANGED <<now, nextId, surveyVars>>

(* ----------------------------- team notes ------------------------------ *)
TeamExists(teamId) == \E t \in db.discussion_teams : t.id = teamId

\* question_id: a discussion question id, or NULL for a general note
createTeamNote(userId, team_id, question_id, content) ==
    LET gate == checkTourReadOnlyByTeamId(team_id)
        fkOk == /\ TeamExists(team_id)
                /\ question_id = NULL \/ \E q \in db.discussion_questions : q.id = question_id
    IN  /\ CanAllocate
        /\ IF fkOk
             THEN /\ db' = [db EXCEPT !.discussion_team_notes = @ \cup
                              {[id |-> nextId, team_id |-> team_id,
                                question_id |-> question_id,
                                created_by |-> userId, content |-> content]}]
                  /\ nextId' = nextId + 1
                  /\ lastReq' = Req("createTeamNote", "DiscussionTeamNote", gate, TRUE,
                                    "none", Response(201, "none"))
           ELSE /\ lastReq' = Req("createTeamNote", "DiscussionTeamNote", gate, FALSE,
                                  "23503", ReadOnlyCatch("23503", "Failed to create note"))
                /\ UNCHANGED <<db, nextId>>
        /\ UNCHANGED <<now, surveyVars>>

\* only the author may change the note
updateTeamNote(noteId, userId, content) ==
    LET checkResult == { n \in db.discussion_team_notes : n.id = noteId }
        allowed == \E n \in checkResult : n.created_by = userId
    IN  /\ db' = [db EXCEPT !.discussion_team_notes =
                    IF allowed
                      THEN (@ \ checkResult) \cup
                           { [n EXCEPT !.content = content] : n \in checkResult }
                      ELSE @]
        /\ lastReq' =
             IF checkResult = {}
               THEN Req("updateTeamNote", "DiscussionTeamNote",
                        checkTourReadOnlyByTeamNoteId(noteId), FALSE, "Note not found",
                        Response(404, "Note not found"))
             ELSE IF ~allowed
               THEN Req("updateTeamNote", "DiscussionTeamNote",
                        checkTourReadOnlyByTeamNoteId(noteId), FALSE,
                        "Only the author can update this note",
                        Response(403, "Only the author can update this note"))
             ELSE Req("updateTeamNote", "DiscussionTeamNote",
                      checkTourReadOnlyByTeamNoteId(noteId), TRUE, "none",
                      Response(200, "none"))
        /\ UNCHANGED <<now, nextId, surveyVars>>

deleteTeamNote(noteId, userId) ==
    LET checkResult == { n \in db.discussion_team_notes : n.id = noteId }
        allowed == \E n \in checkResult : n.created_by = userId
    IN  /\ db' = [db EXCEPT !.discussion_team_notes =
                    IF allowed THEN @ \ checkResult ELSE @]
        /\ lastReq' =
             IF checkResult = {}
               THEN Req("deleteTeamNote", "DiscussionTeamNote",
                        checkTourReadOnlyByTeamNoteId(noteId), FALSE, "Note not found",
                        Response(404, "Note not found"))
             ELSE IF ~allowed
               THEN Req("deleteTeamNote", "DiscussionTeamNote",
                        checkTourReadOnlyByTeamNoteId(noteId), FALSE,
                        "Only the author can delete this note",
                        Response(403, "Only the author can delete this note"))
             ELSE Req("deleteTeamNote", "DiscussionTeamNote",
                      checkTourReadOnlyByTeamNoteId(noteId), TRUE, "none",
                      Response(204, "none"))
        /\ UNCHANGED <<now, nextId, surveyVars>>

(* -------------------------------- tours -------------------------------- *)
\* the values of the enum type tour_status
TourStatuses == {"Draft", "Pending", "Completed"}

\* createTour: INSERT INTO tours with status || 'Draft'; the id comes from the
\* serial of the table (no tour is ever deleted here)
createTour(end_date, status) ==
    /\ Cardinality(db.tours) < MaxId
    /\ db' = [db EXCEPT !.tours = @ \cup
                 {[id |-> Cardinality(db.tours) + 1, end_date |-> end_date,
                   status |-> Coalesce(status, "Draft")]}]
    /\ lastReq' = NoReq
    /\ UNCHANGED <<now, nextId, surveyVars>>

\* updateTour with a new end_date and, when the body has one, a new status
\* (COALESCE: the other columns keep their value)
updateTour(id, end_date, status) ==
    LET hit == { t \in db.tours : t.id = id }
    IN  /\ db' = [db EXCEPT !.tours =
                    (@ \ hit) \cup { [t EXCEPT !.end_date = end_date,
                                                !.status = Coalesce(status, @)] :
                                      t \in hit }]
        /\ lastReq' = NoReq
        /\ UNCHANGED <<now, nextId, surveyVars>>

\* validTransitions[from].includes(to)
validTransitions(from, to) ==
    <<from, to>> \in {<<"Draft", "Pending">>, <<"Pending", "Completed">>}

\* updateTourStatus: the handler of PATCH /tours/:id/status with the service
\* behind it; a status outside the enum, a missing tour and a transition that
\* is not valid are answered 400 and leave the table alone
updateTourStatus(id, newStatus) ==
    LET currentTour == { t \in db.tours : t.id = id }
        thrown == IF currentTour = {} THEN "Tour not found"
                  ELSE IF \E t \in currentTour : validTransitions(t.status, newStatus)
                    THEN "none"
                  ELSE "Invalid status transition"
    IN  IF newStatus \notin TourStatuses
          THEN /\ lastReq' = Req("updateTourStatus", "Tour", "Ok", FALSE, "none",
                                 Response(400, "Invalid status. Must be Draft, Pending, or Completed"))
               /\ UNCHANGED <<db, now, nextId, surveyVars>>
        ELSE IF thrown # "none"
          THEN /\ lastReq' = Req("updateTourStatus", "Tour", "Ok", FALSE, thrown,
                                 Response(400, thrown))
               /\ UNCHANGED <<db, now, nextId, surveyVars>>
        ELSE /\ db' = [db EXCEPT !.tours =
                         (@ \ currentTour) \cup
                         { [t EXCEPT !.status = newStatus] : t \in currentTour }]
             /\ lastReq' = Req("updateTourStatus", "Tour", "Ok", TRUE, "none",
                               Response(200, "none"))
             /\ UNCHANGED <<now, nextId, surveyVars>>


(* ======================= the survey response engine =================== *)
SurveyIds == {1}

\* one answer of a request body: the question id and the five optional value
\* fields of CreateQuestionResponseData ({} when the field is absent)
Answer(q, text, number, date, options, rating) ==
    [question_id |-> q, text_response |-> text, number_response |-> number,
     date_response |-> date, selected_option_ids |-> options,
     rating_response |-> rating]

RatingAnswer(q, r) == Answer(q, {}, {}, {}, {}, {r})
NumberAnswer(q, n) == Answer(q, {}, {n}, {}, {}, {})

\* JavaScript `value || null`: an absent field and a falsy value (0, '')
\* both become NULL; an array, even an empty one, is kept
OrNullNumber(opt) == IF opt = {} \/ opt = {0} THEN {} ELSE opt
OrNullText(opt) == IF opt = {} \/ opt = {""} THEN {} ELSE opt
OrNullArray(opt) == opt

\* the parameter list of the INSERT of submitSurveyResponse / saveSurveyProgress
\* (a column is {} when it holds NULL)
AnswerRow(responseId, a) ==
    [response_id |-> responseId, question_id |-> a.question_id,
     text_response |-> OrNullText(a.text_response),
     number_response |-> OrNullNumber(a.number_response),
     date_response |-> OrNullText(a.date_response),
     selected_option_ids |-> OrNullArray(a.selected_option_ids),
     rating_response |-> OrNullNumber(a.rating_response)]

\* the parameter list of the INSERT of submitAnonymousResponse: the fields
\* are passed as they are (an absent field is sent as NULL)
AnonymousAnswerRow(responseId, a) ==
    [response_id |-> responseId, question_id |-> a.question_id,
     text_response |-> a.text_response,
     number_response |-> a.number_response,
     date_response |-> a.date_response,
     selected_option_ids |-> a.selected_option_ids,
     rating_response |-> a.rating_response]

\* rating_response INTEGER CHECK (rating_response >= 1 AND rating_response <= 5)
RatingCheck(row) == \A r \in row.rating_response : r >= 1 /\ r <= 5

\* question_id REFERENCES survey_questions(id)
QuestionExists(tables, q) == \E x \in tables.survey_questions : x.id = q

\* survey_id REFERENCES surveys(id)
SurveyExists(tables, surveyId) == \E x \in tables.surveys : x.id = surveyId

\* response_id REFERENCES survey_responses(id)
ResponseExists(tables, responseId) ==
    \E x \in tables.survey_responses : x.id = responseId

\* UNIQUE(response_id, question_id)
AnswerConflicts(answers, row) ==
    { x \in answers : x.response_id = row.response_id /\ x.question_id = row.question_id }

\* survey_responses without a unique index on (survey_id, user_id)
NoUniqueIndex(responses, row) == {}

\* CREATE UNIQUE INDEX survey_responses_unique_user ON survey_responses
\* (survey_id, user_id) WHERE user_id IS NOT NULL: the rows a new row collides with
UniqueUserConflicts(responses, row) ==
    { x \in responses : /\ row.user_id # {}
                        /\ x.survey_id = row.survey_id
                        /\ x.user_id = row.user_id }

\* CONSTRAINT check_anonymous_response_email
AnonymousEmailCheck(row) ==
    \/ row.is_anonymous = FALSE /\ row.user_id # {}
    \/ row.is_anonymous = TRUE /\ row.respondent_email # {} /\ row.user_id = {}

\* the result of a statement sequence: the rows, and whether a statement failed
Outcome(ok, rows) == [ok |-> ok, rows |-> rows]

\* the insert loop of submitSurveyResponse and submitAnonymousResponse over
\* rows[i..], stopping at the first statement the database rejects
RECURSIVE InsertAnswers(_, _, _, _)
InsertAnswers(tables, answers, rows, i) ==
    IF i > Len(rows) THEN Outcome(TRUE, answers)
    ELSE IF \/ ~QuestionExists(tables, rows[i].question_id)
            \/ ~RatingCheck(rows[i])
            \/ AnswerConflicts(answers, rows[i]) # {}
      THEN Outcome(FALSE, answers)
    ELSE InsertAnswers(tables, answers \cup {rows[i]}, rows, i + 1)

\* the insert loop of saveSurveyProgress: ON CONFLICT (response_id,
\* question_id) DO UPDATE replaces the value columns of the existing row
RECURSIVE UpsertAnswers(_, _, _, _)
UpsertAnswers(tables, answers, rows, i) ==
    IF i > Len(rows) THEN Outcome(TRUE, answers)
    ELSE IF \/ ~QuestionExists(tables, rows[i].question_id)
            \/ ~RatingCheck(rows[i])
      THEN Outcome(FALSE, answers)
    ELSE UpsertAnswers(tables,
                       (answers \ AnswerConflicts(answers, rows[i])) \cup {rows[i]},
                       rows, i + 1)

\* the parameter lists of the loop over responseData.responses, in order
AnswerRows(responseId, responses) ==
    [i \in 1..Len(responses) |-> AnswerRow(responseId, responses[i])]

AnonymousAnswerRows(responseId, responses) ==
    [i \in 1..Len(responses) |-> AnonymousAnswerRow(responseId, responses[i])]

\* outcome of the survey-side call handled by the last step (NoCall after
\* any other step): the operation, the user, survey and token it was made
\* for, the HTTP status and error the controller answers, and the id of the
\* response row it worked on
Call(op, user, survey, token, status, error, responseId) ==
    [op |-> op, user |-> user, survey |-> survey, token |-> token,
     status |-> status, error |-> error, responseId |-> responseId]

NoCall == Call("none", "none", NULL, NULL, NULL, "none", NULL)

\* SELECT id FROM survey_responses WHERE survey_id = $1 AND user_id = $2
\* (user_id is {} in a row where the column is NULL)
ExistingResponse(tables, surveyId, userId) ==
    { r \in tables.survey_responses : r.survey_id = surveyId /\ r.user_id = {userId} }

ResponseRow(id, surveyId, userId, submittedAt, isComplete, email, anonymous) ==
    [id |-> id, survey_id |-> surveyId, user_id |-> userId,
     submitted_at |-> submittedAt, is_complete |-> isComplete,
     respondent_email |-> email, is_anonymous |-> anonymous]

\* the survey_responses table after the first branch of submitSurveyResponse:
\* UPDATE .. SET submitted_at = NOW(), is_complete = true of the existing row,
\* or INSERT of a new complete row
submitResponses(tables, existingResult, responseId, surveyId, userId) ==
    IF existingResult # {}
      THEN { IF r.id = responseId
               THEN [r EXCEPT !.submitted_at = now, !.is_complete = TRUE]
               ELSE r : r \in tables.survey_responses }
      ELSE tables.survey_responses \cup
           {ResponseRow(responseId, surveyId, {userId}, now, TRUE, {}, FALSE)}

\* DELETE FROM survey_question_responses WHERE response_id = $1
submitAnswersKept(tables, existingResult, responseId) ==
    IF existingResult # {}
      THEN { a \in tables.survey_question_responses : a.response_id # responseId }
      ELSE tables.survey_question_responses

\* submitSurveyResponse called by submitResponse while no other request is in
\* flight: the pool hands every statement the same connection, so BEGIN ..
\* COMMIT / ROLLBACK bracket the statements.  The sequence value a failed
\* INSERT consumed is not given back.
submitSurveyResponse(userId, surveyId, responses) ==
    LET existingResult == ExistingResponse(sdb, surveyId, userId)
        isUpdate == existingResult # {}
        responseId == IF isUpdate THEN (CHOOSE r \in existingResult : TRUE).id
                      ELSE respSeq
        insertOk == SurveyExists(sdb, surveyId)
        loop == InsertAnswers(sdb, submitAnswersKept(sdb, existingResult, responseId),
                              AnswerRows(responseId, responses), 1)
        committed == (isUpdate \/ insertOk) /\ loop.ok
    IN  /\ isUpdate \/ respSeq <= MaxResp
        /\ sdb' = IF committed
                    THEN [sdb EXCEPT
                            !.survey_responses =
                                submitResponses(sdb, existingResult, responseId,
                                                surveyId, userId),
                            !.survey_question_responses = loop.rows]
                    ELSE sdb
        /\ respSeq' = IF isUpdate THEN respSeq ELSE respSeq + 1
        /\ lastCall' = IF committed
                         THEN Call("submit", userId, surveyId, NULL, 201, "none", responseId)
                         ELSE Call("submit", userId, surveyId, NULL, 500,
                                   "Failed to submit response", NULL)
        /\ UNCHANGED <<now, gateVars, tokenSeq, poolVars>>

\* saveSurveyProgress with an existing row marking it incomplete again
saveProgressMarksIncomplete(tables, existingResult, responseId, surveyId, userId) ==
    IF existingResult # {}
      THEN { IF r.id = responseId THEN [r EXCEPT !.is_complete = FALSE] ELSE r :
             r \in tables.survey_responses }
      ELSE tables.survey_responses \cup
           {ResponseRow(responseId, surveyId, {userId}, NULL, FALSE, {}, FALSE)}

\* saveSurveyProgress with an existing row stamping submitted_at
saveProgressStampsSubmittedAt(tables, existingResult, responseId, surveyId, userId) ==
    IF existingResult # {}
      THEN { IF r.id = responseId THEN [r EXCEPT !.submitted_at = now] ELSE r :
             r \in tables.survey_responses }
      ELSE tables.survey_responses \cup
           {ResponseRow(responseId, surveyId, {userId}, NULL, FALSE, {}, FALSE)}

\* the survey_responses table after the first branch of saveSurveyProgress:
\* the existing row is not written; otherwise INSERT .. (survey_id, user_id,
\* is_complete) VALUES ($1, $2, false), submitted_at left NULL
saveProgressResponses(tables, existingResult, responseId, surveyId, userId) ==
    IF existingResult # {}
      THEN tables.survey_responses
      ELSE tables.survey_responses \cup
           {ResponseRow(responseId, surveyId, {userId}, NULL, FALSE, {}, FALSE)}

\* DELETE FROM survey_question_responses WHERE response_id = $1 AND
\* question_id = ANY($2::int[])
saveProgressAnswersKept(tables, existingResult, responseId, questionIds) ==
    IF existingResult # {}
      THEN { a \in tables.survey_question_responses :
               ~(a.response_id = responseId /\ a.question_id \in questionIds) }
      ELSE tables.survey_question_responses

\* saveSurveyProgress called by saveProgress, under the same regime
saveSurveyProgress(userId, surveyId, responses) ==
    LET existingResult == ExistingResponse(sdb, surveyId, userId)
        isUpdate == existingResult # {}
        responseId == IF isUpdate THEN (CHOOSE r \in existingResult : TRUE).id
                      ELSE respSeq
        insertOk == SurveyExists(sdb, surveyId)
        questionIds == { responses[i].question_id : i \in 1..Len(responses) }
        loop == UpsertAnswers(sdb,
                              saveProgressAnswersKept(sdb, existingResult, responseId,
                                                      questionIds),
                              AnswerRows(responseId, responses), 1)
        committed == (isUpdate \/ insertOk) /\ loop.ok
    IN  /\ isUpdate \/ respSeq <= MaxResp
        /\ sdb' = IF committed
                    THEN [sdb EXCEPT
                            !.survey_responses =
                                saveProgressResponses(sdb, existingResult, responseId,
                                                      surveyId, userId),
                            !.survey_question_responses = loop.rows]
                    ELSE sdb
        /\ respSeq' = IF isUpdate THEN respSeq ELSE respSeq + 1
        /\ lastCall' = IF committed
                         THEN Call("saveProgress", userId, surveyId, NULL, 200, "none",
                                   responseId)
                         ELSE Call("saveProgress", userId, surveyId, NULL, 500,
                                   "Failed to save progress", NULL)
        /\ UNCHANGED <<now, gateVars, tokenSeq, poolVars>>

(* ---------------------- public (anonymous) access ---------------------- *)
\* the characters \s of the e-mail pattern stands for
Whitespace == {" "}

\* an e-mail check that only looks for an '@'
isValidEmailLoose(email) == \E p \in 1..Len(email) : email[p] = "@"

\* emailRegex = /^[^\s@]+@[^\s@]+\.[^\s@]+$/ on an e-mail given as its
\* sequence of characters: one '@' at p, a '.' at d, a non-empty local part
\* before p, a non-empty part between p and d and a non-empty part after d
isValidEmail(email) ==
    \E p \in 1..Len(email), d \in 1..Len(email) :
        /\ email[p] = "@"
        /\ email[d] = "."
        /\ 1 < p /\ p + 1 < d /\ d < Len(email)
        /\ \A i \in 1..Len(email) : i # p => email[i] \notin Whitespace \cup {"@"}

\* SELECT id FROM surveys WHERE public_access_token = $1 AND
\* allow_public_access = true AND status = 'ACTIVE' AND
\* (public_access_expires_at IS NULL OR public_access_expires_at > NOW())
\* with every status accepted
PublicSurveyAnyStatus(tables, token) ==
    { s \in tables.surveys :
        /\ s.public_access_token = token
        /\ s.allow_public_access = TRUE
        /\ \/ s.public_access_expires_at = NULL
           \/ s.public_access_expires_at > now }

\* SELECT id FROM surveys WHERE public_access_token = $1 AND
\* allow_public_access = true AND status = 'ACTIVE' AND
\* (public_access_expires_at IS NULL OR public_access_expires_at > NOW())
PublicSurvey(tables, token) ==
    { s \in tables.surveys :
        /\ s.public_access_token = token
        /\ s.allow_public_access = TRUE
        /\ s.status = "ACTIVE"
        /\ \/ s.public_access_expires_at = NULL
           \/ s.public_access_expires_at > now }

\* an anonymous INSERT that replaces the row of the same e-mail address
anonymousResponsesByEmail(tables, row) ==
    { r \in tables.survey_responses :
        ~(r.survey_id = row.survey_id /\ r.respondent_email = row.respondent_email) }
    \cup {row}

\* INSERT INTO survey_responses (survey_id, user_id, .., respondent_email, ..,
\* is_anonymous) VALUES ($1, NULL, .., true): always a new row
anonymousResponses(tables, row) == tables.survey_responses \cup {row}

\* submitAnonymousResponse: the token lookup, the e-mail validation, then the
\* INSERT of the response row and of one answer row per answer, each statement
\* committed on its own (the function opens no transaction)
submitAnonymousResponse(token, respondent_email, responses) ==
    LET surveyResult == PublicSurvey(sdb, token)
        surveyId == (CHOOSE s \in surveyResult : TRUE).id
        responseId == respSeq
        row == ResponseRow(responseId, surveyId, {}, now, TRUE, respondent_email, TRUE)
        rowOk == AnonymousEmailCheck(row) /\ UniqueUserConflicts(sdb.survey_responses, row) = {}
        inserted == [sdb EXCEPT !.survey_responses = anonymousResponses(sdb, row)]
        loop == InsertAnswers(inserted, sdb.survey_question_responses,
                              AnonymousAnswerRows(responseId, responses), 1)
    IN  IF surveyResult = {}
          THEN /\ lastCall' = Call("submitAnonymous", "none", NULL, token, 400,
                                   "Invalid or expired public survey token", NULL)
               /\ UNCHANGED <<sdb, respSeq>>
        ELSE IF \E e \in respondent_email : e # <<>> /\ ~isValidEmail(e)
          THEN /\ lastCall' = Call("submitAnonymous", "none", surveyId, token, 400,
                                   "Invalid email format", NULL)
               /\ UNCHANGED <<sdb, respSeq>>
        ELSE /\ respSeq <= MaxResp
             /\ respSeq' = respSeq + 1
             /\ sdb' = IF rowOk
                         THEN [inserted EXCEPT !.survey_question_responses = loop.rows]
                         ELSE sdb
             /\ lastCall' = IF rowOk /\ loop.ok
                              THEN Call("submitAnonymous", "none", surveyId, token, 201,
                                        "none", responseId)
                              ELSE Call("submitAnonymous", "none", surveyId, token, 500,
                                        "Internal server error", NULL)

\* the handler of POST /public/surveys/:token/submit without its check of
\* respondent_email
submitPublicUnchecked(token, respondent_email, responses) ==
    /\ submitAnonymousResponse(token, respondent_email, responses)
    /\ UNCHANGED <<now, gateVars, tokenSeq, poolVars>>

\* submitPublicSurveyResponse: the handler of POST /public/surveys/:token/submit
\* (respondent_email is {} when the body has none, {<<>>} for '')
submitPublicSurveyResponse(token, respondent_email, responses) ==
    /\ IF respondent_email = {} \/ respondent_email = {<<>>}
         THEN /\ lastCall' = Call("submitAnonymous", "none", NULL, token, 400,
                                  "Email is required for anonymous survey responses",
                                  NULL)
              /\ UNCHANGED <<sdb, respSeq>>
         ELSE submitAnonymousResponse(token, respondent_email, responses)
    /\ UNCHANGED <<now, gateVars, tokenSeq, poolVars>>

\* generatePublicAccessToken: SELECT generate_public_access_token($1), which
\* draws a fresh UUID and stores it with allow_public_access and the expiry
generatePublicAccessToken(surveyId) ==
    /\ tokenSeq <= MaxToken
    /\ sdb' = [sdb EXCEPT !.surveys =
                 { IF s.id = surveyId
                     THEN [s EXCEPT !.public_access_token = tokenSeq,
                                    !.allow_public_access = TRUE,
                                    !.public_access_expires_at = now + TokenLifetime]
                     ELSE s : s \in @ }]
    /\ tokenSeq' = tokenSeq + 1
    /\ lastCall' = NoCall
    /\ UNCHANGED <<now, gateVars, respSeq, poolVars>>

\* revokePublicAccess: SELECT revoke_public_access($1)
revokePublicAccess(surveyId) ==
    /\ sdb' = [sdb EXCEPT !.surveys =
                 { IF s.id = surveyId
                     THEN [s EXCEPT !.public_access_token = NULL,
                                    !.allow_public_access = FALSE,
                                    !.public_access_expires_at = NULL]
                     ELSE s : s \in @ }]
    /\ lastCall' = NoCall
    /\ UNCHANGED <<now, gateVars, respSeq, tokenSeq, poolVars>>

\* updateSurvey with updateData.status given (title and description are not
\* modelled)
updateSurvey(id, status) ==
    /\ sdb' = [sdb EXCEPT !.surveys =
                 { IF s.id = id THEN [s EXCEPT !.status = status] ELSE s : s \in @ }]
    /\ lastCall' = NoCall
    /\ UNCHANGED <<now, gateVars, respSeq, tokenSeq, poolVars>>

Tick ==
    /\ now < MaxTime
    /\ now' = now + 1
    /\ lastReq' = NoReq
    /\ lastCall' = NoCall
    /\ UNCHANGED <<db, nextId, sdb, respSeq, tokenSeq, poolVars>>

(* --------------- the connection pool and concurrent requests ----------- *)
\* query(text, params) is pool.query(text, params): every statement of a
\* request, BEGIN / COMMIT / ROLLBACK included, runs on whichever pooled
\* connection is handed out for it.  A statement is one step; a connection
\* keeps the rows its open transaction has written (added) and the committed
\* rows it has deleted or replaced (removed), which are locked until it ends.
Conns == {1, 2}
Procs == {1, 2}
Tables == {"survey_responses", "survey_question_responses"}

NoRows == [t \in Tables |-> {}]

IdleConn == [tx |-> "idle", added |-> NoRows, removed |-> NoRows]

IdleProc ==
    [pc |-> "idle", op |-> "none", user |-> "none", survey |-> NULL,
     responses |-> <<>>, responseId |-> NULL, i |-> 0,
     status |-> NULL, error |-> "none", raced |-> FALSE, calls |-> 0]

\* what a statement on connection c reads: the committed rows and the rows of
\* the connection's own open transaction
Visible(c) ==
    [sdb EXCEPT
       !.survey_responses =
           (@ \ conn[c].removed.survey_responses) \cup conn[c].added.survey_responses,
       !.survey_question_responses =
           (@ \ conn[c].removed.survey_question_responses)
           \cup conn[c].added.survey_question_responses]

\* rows written, and committed rows locked, by the open transactions of the
\* other connections
OthersAdded(c, t) == UNION { conn[d].added[t] : d \in Conns \ {c} }
OthersRemoved(c, t) == UNION { conn[d].removed[t] : d \in Conns \ {c} }

\* the effect of a write statement: rows to add and delete per table, the
\* error the database raises ("none" if it accepts the statement), and whether
\* the statement has to wait for another transaction to end
Write(add, del, error, wait) == [add |-> add, del |-> del, error |-> error, wait |-> wait]

\* the error a statement on connection c ends with: in a failed transaction
\* every statement but COMMIT / ROLLBACK is refused (25P02)
ErrorOf(c, w) == IF conn[c].tx = "aborted" THEN "25P02" ELSE w.error

\* the connections after write w ran on c: inside a transaction the rows stay
\* pending (an error aborts the transaction); outside they go to the tables
ConnAfter(c, w) ==
    IF conn[c].tx # "open" THEN conn
    ELSE IF w.error # "none" THEN [conn EXCEPT ![c].tx = "aborted"]
    ELSE [conn EXCEPT
            ![c].added = [t \in Tables |-> (@[t] \ w.del[t]) \cup w.add[t]],
            ![c].removed = [t \in Tables |-> @[t] \cup (w.del[t] \cap sdb[t])]]

TablesAfter(c, w) ==
    IF conn[c].tx = "idle" /\ w.error = "none"
      THEN [sdb EXCEPT
              !.survey_responses =
                  (@ \ w.del.survey_responses) \cup w.add.survey_responses,
              !.survey_question_responses =
                  (@ \ w.del.survey_question_responses)
                  \cup w.add.survey_question_responses]
      ELSE sdb

\* INSERT INTO survey_responses on connection c
InsertResponse(c, row) ==
    LET seen == UniqueUserConflicts(Visible(c).survey_responses, row)
        pending == UniqueUserConflicts(OthersAdded(c, "survey_responses"), row)
        locked == seen \cap OthersRemoved(c, "survey_responses")
    IN  Write([NoRows EXCEPT !.survey_responses = {row}], NoRows,
              IF seen # {} THEN "survey_responses_unique_user"
              ELSE IF ~SurveyExists(sdb, row.survey_id) THEN "23503"
              ELSE IF ~AnonymousEmailCheck(row) THEN "23514"
              ELSE "none",
              pending # {} \/ locked # {})

\* UPDATE survey_responses SET submitted_at = NOW(), is_complete = true
\* WHERE id = $2 on connection c
UpdateResponse(c, responseId) ==
    LET target == { r \in Visible(c).survey_responses : r.id = responseId }
    IN  Write([NoRows EXCEPT !.survey_responses =
                   { [r EXCEPT !.submitted_at = now, !.is_complete = TRUE] : r \in target }],
              [NoRows EXCEPT !.survey_responses = target],
              "none",
              target \cap OthersRemoved(c, "survey_responses") # {})

\* DELETE FROM survey_question_responses WHERE response_id = $1 [AND
\* question_id = ANY($2)] on connection c; byQuestion is FALSE for the first
\* form
DeleteAnswers(c, responseId, byQuestion, questionIds) ==
    LET target == { a \in Visible(c).survey_question_responses :
                      /\ a.response_id = responseId
                      /\ byQuestion => a.question_id \in questionIds }
    IN  Write(NoRows, [NoRows EXCEPT !.survey_question_responses = target], "none",
              target \cap OthersRemoved(c, "survey_question_responses") # {})

\* INSERT INTO survey_question_responses [.. ON CONFLICT (response_id,
\* question_id) DO UPDATE ..] on connection c
InsertAnswer(c, row, onConflictUpdate) ==
    LET seen == AnswerConflicts(Visible(c).survey_question_responses, row)
        pending == AnswerConflicts(OthersAdded(c, "survey_question_responses"), row)
        locked == seen \cap OthersRemoved(c, "survey_question_responses")
    IN  Write([NoRows EXCEPT !.survey_question_responses = {row}],
              [NoRows EXCEPT !.survey_question_responses = seen],
              IF \/ ~ResponseExists(Visible(c), row.response_id)
                 \/ ~QuestionExists(sdb, row.question_id) THEN "23503"
              ELSE IF ~RatingCheck(row) THEN "23514"
              ELSE IF seen # {} /\ ~onConflictUpdate
                THEN "survey_question_responses_response_id_question_id_key"
              ELSE "none",
              pending # {} \/ locked # {})

\* the number of requests the slots in S have served or are serving
RECURSIVE CallsOf(_)
CallsOf(S) ==
    IF S = {} THEN 0
    ELSE LET p == CHOOSE q \in S : TRUE IN proc[p].calls + CallsOf(S \ {p})

\* a request enters submitSurveyResponse / saveSurveyProgress; it is served
\* by the first free slot
Start(p, op, userId, surveyId, responses) ==
    /\ proc[p].pc = "idle"
    /\ \A q \in Procs : q < p => proc[q].pc # "idle"
    /\ CallsOf(Procs) < MaxCalls
    /\ proc' = [proc EXCEPT ![p] = [IdleProc EXCEPT !.pc = "BEGIN", !.op = op,
                                      !.user = userId, !.survey = surveyId,
                                      !.responses = responses,
                                      !.calls = proc[p].calls + 1]]
    /\ UNCHANGED <<now, gateVars, sdb, respSeq, tokenSeq, lastCall, conn>>

\* the request returns to its controller, which answers 201 / 200 or, for
\* every error, 500
Return(p, error) ==
    [proc EXCEPT ![p] = [IdleProc EXCEPT
        !.op = proc[p].op, !.user = proc[p].user, !.survey = proc[p].survey,
        !.raced = proc[p].raced, !.calls = proc[p].calls, !.error = error,
        !.status = IF error # "none" THEN 500
                   ELSE IF proc[p].op = "submit" THEN 201 ELSE 200]]

Goto(p, pc) == [proc EXCEPT ![p].pc = pc]

\* the statement after the response row has been written
AfterResponse(p) == IF Len(proc[p].responses) >= 1 THEN "ANSWER" ELSE "COMMIT"

\* const client = await query('BEGIN'), before the try block
Begin(p, c) ==
    /\ proc[p].pc = "BEGIN"
    /\ IF conn[c].tx = "aborted"
         THEN proc' = Return(p, "25P02") /\ UNCHANGED conn
         ELSE proc' = Goto(p, "SELECT") /\ conn' = [conn EXCEPT ![c].tx = "open"]
    /\ UNCHANGED <<now, gateVars, sdb, respSeq, tokenSeq, lastCall>>

\* existingResult = await query(SELECT id FROM survey_responses ..)
Select(p, c) ==
    LET existingResult == ExistingResponse(Visible(c), proc[p].survey, proc[p].user)
        racing == { q \in Procs \ {p} : /\ proc[q].pc = "INSERT"
                                        /\ proc[q].user = proc[p].user
                                        /\ proc[q].survey = proc[p].survey }
    IN  /\ proc[p].pc = "SELECT"
        /\ proc' =
             IF conn[c].tx = "aborted"
               THEN [proc EXCEPT ![p].pc = "ROLLBACK", ![p].error = "25P02"]
             ELSE IF existingResult # {}
               THEN [proc EXCEPT ![p].pc = "DELETE",
                                 ![p].responseId = (CHOOSE r \in existingResult : TRUE).id]
             ELSE [q \in Procs |->
                     IF q = p THEN [proc[p] EXCEPT !.pc = "INSERT", !.raced = racing # {}]
                     ELSE IF q \in racing THEN [proc[q] EXCEPT !.raced = TRUE]
                     ELSE proc[q]]
        /\ UNCHANGED <<now, gateVars, sdb, respSeq, tokenSeq, lastCall, conn>>

\* a write statement of the try block: on an error the catch block is entered
Exec(p, c, w, pcAfter) ==
    /\ conn[c].tx = "aborted" \/ ~w.wait
    /\ conn' = IF conn[c].tx = "aborted" THEN conn ELSE ConnAfter(c, w)
    /\ sdb' = IF conn[c].tx = "aborted" THEN sdb ELSE TablesAfter(c, w)
    /\ proc' = IF ErrorOf(c, w) # "none"
                 THEN [proc EXCEPT ![p].pc = "ROLLBACK", ![p].error = ErrorOf(c, w)]
                 ELSE pcAfter

\* the DELETE of the answers of the existing response
Delete(p, c) ==
    /\ proc[p].pc = "DELETE"
    /\ Exec(p, c,
            DeleteAnswers(c, proc[p].responseId, proc[p].op = "saveProgress",
                          { proc[p].responses[i].question_id :
                              i \in 1..Len(proc[p].responses) }),
            Goto(p, IF proc[p].op = "submit" THEN "UPDATE" ELSE AfterResponse(p)))
    /\ UNCHANGED <<now, gateVars, respSeq, tokenSeq, lastCall>>

\* the UPDATE of the existing response (submitSurveyResponse only)
Update(p, c) ==
    /\ proc[p].pc = "UPDATE"
    /\ Exec(p, c, UpdateResponse(c, proc[p].responseId), Goto(p, AfterResponse(p)))
    /\ UNCHANGED <<now, gateVars, respSeq, tokenSeq, lastCall>>

\* the INSERT of a new response; nextval is drawn unless the transaction of
\* the connection has failed already
Insert(p, c) ==
    LET row == ResponseRow(respSeq, proc[p].survey, {proc[p].user},
                           IF proc[p].op = "submit" THEN now ELSE NULL,
                           proc[p].op = "submit", {}, FALSE)
    IN  /\ proc[p].pc = "INSERT"
        /\ respSeq <= MaxResp
        /\ Exec(p, c, InsertResponse(c, row),
                [proc EXCEPT ![p].pc = AfterResponse(p), ![p].responseId = respSeq])
        /\ respSeq' = IF conn[c].tx = "aborted" THEN respSeq ELSE respSeq + 1
        /\ UNCHANGED <<now, gateVars, tokenSeq, lastCall>>

\* one INSERT of the loop over the answers
InsertAnswerStep(p, c) ==
    LET i == proc[p].i + 1
        last == i = Len(proc[p].responses)
    IN  /\ proc[p].pc = "ANSWER"
        /\ Exec(p, c,
                InsertAnswer(c, AnswerRow(proc[p].responseId, proc[p].responses[i]),
                             proc[p].op = "saveProgress"),
                [proc EXCEPT ![p].i = i, ![p].pc = IF last THEN "COMMIT" ELSE "ANSWER"])
        /\ UNCHANGED <<now, gateVars, respSeq, tokenSeq, lastCall>>

\* await query('COMMIT'): commits the transaction of the connection it runs
\* on (a failed transaction is rolled back instead, without an error)
Commit(p, c) ==
    /\ proc[p].pc = "COMMIT"
    /\ sdb' = IF conn[c].tx = "open"
                THEN [sdb EXCEPT
                        !.survey_responses =
                            (@ \ conn[c].removed.survey_responses)
                            \cup conn[c].added.survey_responses,
                        !.survey_question_responses =
                            (@ \ conn[c].removed.survey_question_responses)
                            \cup conn[c].added.survey_question_responses]
                ELSE sdb
    /\ conn' = [conn EXCEPT ![c] = IdleConn]
    /\ proc' = Goto(p, "READ")
    /\ UNCHANGED <<now, gateVars, respSeq, tokenSeq, lastCall>>

\* return getSurveyResponse(responseId): its two SELECTs run on connections c
\* and d; the promise is returned without await, so its rejection is not
\* caught by the catch block
Read(p, c, d) ==
    /\ proc[p].pc = "READ"
    /\ proc' = IF conn[c].tx = "aborted" \/ conn[d].tx = "aborted"
                 THEN Return(p, "25P02")
               ELSE IF ~ResponseExists(Visible(c), proc[p].responseId)
                 THEN Return(p, "Response not found")
               ELSE Return(p, "none")
    /\ UNCHANGED <<now, gateVars, sdb, respSeq, tokenSeq, lastCall, conn>>

\* catch (error) { await query('ROLLBACK'); throw error; }
Rollback(p, c) ==
    /\ proc[p].pc = "ROLLBACK"
    /\ conn' = [conn EXCEPT ![c] = IdleConn]
    /\ proc' = Return(p, proc[p].error)
    /\ UNCHANGED <<now, gateVars, sdb, respSeq, tokenSeq, lastCall>>

(* ------------------- the tour-side specification ----------------------- *)
IdInputs == 1..MaxId

InitDb ==
    [tours |-> {[id |-> 1, end_date |-> 1, status |-> "Draft"]},
     activities |-> {[id |-> 1, tour_id |-> 1]},
     notes |-> {}, discussions |-> {}, discussion_messages |-> {},
     message_reactions |-> {}, activity_questions |-> {},
     discussion_teams |-> {}, discussion_team_notes |-> {},
     discussion_questions |-> {}]

InitSdb ==
    [surveys |-> {[id |-> 1, status |-> "ACTIVE", allow_public_access |-> FALSE,
                   public_access_token |-> NULL, public_access_expires_at |-> NULL]},
     survey_questions |-> {[id |-> 1, survey_id |-> 1, question_type |-> "RATING"],
                           [id |-> 2, survey_id |-> 1, question_type |-> "NUMBER"]},
     survey_responses |-> {},
     survey_question_responses |-> {}]

InitAll ==
    /\ now = 0
    /\ db = InitDb
    /\ nextId = 1
    /\ lastReq = NoReq
    /\ sdb = InitSdb
    /\ respSeq = 1
    /\ tokenSeq = 1
    /\ lastCall = NoCall
    /\ proc = [p \in Procs |-> IdleProc]
    /\ conn = [c \in Conns |-> IdleConn]

InitGate == InitAll

NoteOps ==
    \/ \E u \in UserIds, a \in ActivityIdInputs, c \in Contents,
          q \in {NULL} \cup IdInputs : createNote(u, a, c, q)
    \/ \E id \in IdInputs, c \in Contents, u \in UserIds : updateNote(id, c, u)
    \/ \E id \in IdInputs, u \in UserIds : deleteNote(id, u)

DiscussionOps ==
    \/ \E t \in TourIds, u \in UserIds, c \in Contents : createDiscussion(t, u, c)
    \/ \E id \in IdInputs, c \in Optional(Contents), l \in Optional(BOOLEAN) :
          updateDiscussion(id, c, l)
    \/ \E id \in IdInputs : deleteDiscussion(id)

MessageOps ==
    \/ \E d \in IdInputs, u \in UserIds, c \in Contents : createMessage(d, u, c)
    \/ \E id \in IdInputs, u \in UserIds, c \in Contents : updateMessage(id, u, c)
    \/ \E id \in IdInputs, u \in UserIds : deleteMessage(id, u)
    \/ \E a \in ActivityIdInputs, u \in UserIds, c \in Contents :
          createActivityMessage(a, u, c)

ReactionOps ==
    \/ \E id \in IdInputs, u \in UserIds : addReaction(id, u)
    \/ \E id \in IdInputs, u \in UserIds : removeReaction(id, u)

ActivityQuestionOps ==
    \/ \E a \in ActivityIdInputs, u \in UserIds : createActivityQuestion(a, u)
    \/ \E id \in IdInputs, u \in UserIds, da \in BOOLEAN :
          deleteActivityQuestion(id, u, da)

DiscussionQuestionOps ==
    \/ \E a \in ActivityIdInputs, c \in Contents : createDiscussionQuestion(a, c)
    \/ \E id \in IdInputs, c \in Contents : updateDiscussionQuestion(id, c)
    \/ \E id \in IdInputs : deleteDiscussionQuestion(id)

TeamOps ==
    \/ \E a \in ActivityIdInputs, c \in Contents : createTeam(a, c)
    \/ \E id \in IdInputs, c \in Contents : updateTeam(id, c)
    \/ \E id \in IdInputs : deleteTeam(id)
    \/ \E u \in UserIds, t \in IdInputs, q \in {NULL} \cup IdInputs, c \in Contents :
          createTeamNote(u, t, q, c)
    \/ \E id \in IdInputs, u \in UserIds, c \in Contents : updateTeamNote(id, u, c)
    \/ \E id \in IdInputs, u \in UserIds : deleteTeamNote(id, u)

TourOps == \E t \in TourIds, e \in TimeRange : updateTour(t, e, {})

\* The tour-side tables fall into families that share no statement: notes
\* with activity questions, discussions with messages, teams with team notes
\* and discussion questions.  Each family is explored with the clock and the
\* tour's end_date; reactions are explored over the messages of an activity.
NextNotes ==
    \/ Tick
    \/ TourOps
    \/ NoteOps
    \/ ActivityQuestionOps

NextDiscussions ==
    \/ Tick
    \/ TourOps
    \/ DiscussionOps
    \/ MessageOps

NextTeams ==
    \/ Tick
    \/ TourOps
    \/ TeamOps
    \/ DiscussionQuestionOps

\* the two operations that read end_date, with the clock and updateTour
NextGated ==
    \/ Tick
    \/ TourOps
    \/ \E u \in UserIds, a \in ActivityIdInputs, c \in Contents,
          q \in {NULL} \cup IdInputs : createNote(u, a, c, q)
    \/ \E a \in ActivityIdInputs, u \in UserIds, c \in Contents :
          createActivityMessage(a, u, c)

SpecGated == InitGate /\ [][NextGated]_vars

SpecNotes == InitGate /\ [][NextNotes]_vars

SpecDiscussions == InitGate /\ [][NextDiscussions]_vars

SpecTeams == InitGate /\ [][NextTeams]_vars

NextReactions ==
    \/ Tick
    \/ TourOps
    \/ \E a \in ActivityIdInputs, u \in UserIds, c \in Contents :
          createActivityMessage(a, u, c)
    \/ \E id \in IdInputs, u \in UserIds : deleteMessage(id, u)
    \/ ReactionOps

SpecReactions == InitGate /\ [][NextReactions]_vars

(* ------------------- the gate functions on stored rows ---------------- *)
\* The gate functions are called by no handler; they are applied to tables
\* drawn from the rows the services write.  Tour 2 has one row of every kind
\* (ids 2); tour 1 has any set of kinds the foreign keys allow (ids 1).
GateFunctions ==
    {"checkTourReadOnly", "checkTourReadOnlyByTourId",
     "checkTourReadOnlyByDiscussionId", "checkTourReadOnlyByNoteId",
     "checkTourReadOnlyByTeamId", "checkTourReadOnlyByTeamNoteId",
     "checkTourReadOnlyByMessageId", "checkTourReadOnlyByQuestionId",
     "checkTourReadOnlyByDiscussionQuestionId"}

GateKinds ==
    {"Activity", "Note", "Discussion", "DiscussionMessage", "ActivityQuestion",
     "DiscussionTeam", "DiscussionTeamNote", "DiscussionQuestion"}

\* the foreign keys: a row needs the row it points to
KindsConsistent(kinds) ==
    /\ kinds \cap {"Note", "ActivityQuestion", "DiscussionTeam", "DiscussionQuestion"} # {}
          => "Activity" \in kinds
    /\ "DiscussionTeamNote" \in kinds => "DiscussionTeam" \in kinds
    /\ "DiscussionMessage" \in kinds => "Discussion" \in kinds

\* the rows of tour i: the tour with end_date e and one row, with id i, of
\* every kind in kinds
TourRows(i, e, kinds) ==
    LET row(kind, r) == IF kind \in kinds THEN {r} ELSE {}
    IN  [tours |-> {[id |-> i, end_date |-> e, status |-> "Draft"]},
         activities |-> row("Activity", [id |-> i, tour_id |-> i]),
         notes |-> row("Note", [id |-> i, user_id |-> "u1", activity_id |-> i,
                                content |-> "a", question_id |-> NULL]),
         discussions |-> row("Discussion", [id |-> i, tour_id |-> i, activity_id |-> NULL,
                                            title |-> "a", is_locked |-> FALSE]),
         discussion_messages |->
             row("DiscussionMessage", [id |-> i, discussion_id |-> i, user_id |-> "u1",
                                       content |-> "a", is_edited |-> FALSE]),
         message_reactions |-> {},
         activity_questions |->
             row("ActivityQuestion", [id |-> i, activity_id |-> i, user_id |-> "u1"]),
         discussion_teams |->
             row("DiscussionTeam", [id |-> i, discussion_activity_id |-> i, name |-> "a"]),
         discussion_team_notes |->
             row("DiscussionTeamNote", [id |-> i, team_id |-> i, question_id |-> NULL,
                                        created_by |-> "u1", content |-> "a"]),
         discussion_questions |->
             row("DiscussionQuestion", [id |-> i, discussion_activity_id |-> i,
                                        question_text |-> "a"])]

InitChecks ==
    /\ now \in TimeRange
    /\ \E e1 \in TimeRange, e2 \in TimeRange, kinds \in SUBSET GateKinds :
          /\ KindsConsistent(kinds)
          /\ db = [table \in DOMAIN InitDb |->
                     TourRows(1, e1, kinds)[table] \cup TourRows(2, e2, GateKinds)[table]]
    /\ nextId = MaxId + 1
    /\ lastReq = NoReq
    /\ sdb = InitSdb
    /\ respSeq = 1
    /\ tokenSeq = 1
    /\ lastCall = NoCall
    /\ proc = [p \in Procs |-> IdleProc]
    /\ conn = [c \in Conns |-> IdleConn]

\* the message of the error a gate function throws when its join returns no
\* row
NotFoundMessage(fn) ==
    CASE fn = "checkTourReadOnly" -> "Activity not found"
      [] fn = "checkTourReadOnlyByTourId" -> "Tour not found"
      [] fn = "checkTourReadOnlyByDiscussionId" -> "Discussion not found"
      [] fn = "checkTourReadOnlyByNoteId" -> "Note not found"
      [] fn = "checkTourReadOnlyByTeamId" -> "Team not found"
      [] fn = "checkTourReadOnlyByTeamNoteId" -> "Team note not found"
      [] fn = "checkTourReadOnlyByMessageId" -> "Message not found"
      [] fn = "checkTourReadOnlyByQuestionId" -> "Question not found"
      [] fn = "checkTourReadOnlyByDiscussionQuestionId" -> "Discussion question not found"

GateResult(fn, id) ==
    CASE fn = "checkTourReadOnly" -> checkTourReadOnly(id)
      [] fn = "checkTourReadOnlyByTourId" -> checkTourReadOnlyByTourId(id)
      [] fn = "checkTourReadOnlyByDiscussionId" -> checkTourReadOnlyByDiscussionId(id)
      [] fn = "checkTourReadOnlyByNoteId" -> checkTourReadOnlyByNoteId(id)
      [] fn = "checkTourReadOnlyByTeamId" -> checkTourReadOnlyByTeamId(id)
      [] fn = "checkTourReadOnlyByTeamNoteId" -> checkTourReadOnlyByTeamNoteId(id)
      [] fn = "checkTourReadOnlyByMessageId" -> checkTourReadOnlyByMessageId(id)
      [] fn = "checkTourReadOnlyByQuestionId" -> checkTourReadOnlyByQuestionId(id)
      [] fn = "checkTourReadOnlyByDiscussionQuestionId" ->
             checkTourReadOnlyByDiscussionQuestionId(id)

\* one call of a gate function: it returns, or throws its error
GateCall(fn, id) ==
    LET result == GateResult(fn, id)
        thrown == IF result = "NotFound" THEN NotFoundMessage(fn)
                  ELSE IF result = "TourEnded" THEN TourEndedMessage
                  ELSE "none"
    IN  /\ lastReq' = Req(fn, "none", result, FALSE, thrown, Response(NULL, "none"))
        /\ UNCHANGED <<now, db, nextId, surveyVars>>

NextChecks == \E fn \in GateFunctions, id \in 1..(MaxId + 1) : GateCall(fn, id)

SpecChecks == InitChecks /\ [][NextChecks]_vars

(* --------------------------- the tour calls ---------------------------- *)
\* a status the handler of PATCH /tours/:id/status refuses is among the inputs
StatusInputs == TourStatuses \cup {"Archived"}

NextTours ==
    \/ \E e \in TimeRange, st \in Optional(TourStatuses) : createTour(e, st)
    \/ \E t \in IdInputs, e \in TimeRange, st \in Optional(TourStatuses) :
          updateTour(t, e, st)
    \/ \E t \in IdInputs, st \in StatusInputs : updateTourStatus(t, st)

SpecTours == InitAll /\ [][NextTours]_vars

(* ------------- the authenticated survey calls, one at a time ----------- *)
SeqsUpTo(S, n) == UNION { [1..k -> S] : k \in 0..n }

AuthAnswerInputs == {RatingAnswer(1, 3), NumberAnswer(2, 0), NumberAnswer(2, 4)}

AuthPayloads == SeqsUpTo(AuthAnswerInputs, MaxAnswers)

NextAuth ==
    \/ Tick
    \/ \E u \in UserIds, sv \in SurveyIds, rs \in AuthPayloads :
          submitSurveyResponse(u, sv, rs)
    \/ \E u \in UserIds, sv \in SurveyIds, rs \in AuthPayloads :
          saveSurveyProgress(u, sv, rs)

SpecAuth == InitAll /\ [][NextAuth]_vars

(* ------------------- the public survey calls, one at a time ------------ *)
TokenInputs == 1..MaxToken

EmailInputs ==
    {<<"a", "@", "b", ".", "c">>, <<"z", "@", "b", ".", "c">>, <<"a", "@", "b">>, <<>>}

AnonymousAnswerInputs == {RatingAnswer(1, 3), RatingAnswer(1, 6), NumberAnswer(2, 0)}

AnonymousPayloads == SeqsUpTo(AnonymousAnswerInputs, MaxAnswers)

SurveyStatuses == {"DRAFT", "ACTIVE", "ARCHIVED"}

NextAnon ==
    \/ Tick
    \/ \E sv \in SurveyIds : generatePublicAccessToken(sv)
    \/ \E sv \in SurveyIds : revokePublicAccess(sv)
    \/ \E sv \in SurveyIds, st \in SurveyStatuses : updateSurvey(sv, st)
    \/ \E t \in TokenInputs, e \in Optional(EmailInputs), rs \in AnonymousPayloads :
          submitPublicSurveyResponse(t, e, rs)

SpecAnon == InitAll /\ [][NextAnon]_vars

(* ------------- public submissions with every form of e-mail ------------ *)
\* e-mails without a local part, with whitespace, with two '@', without a
\* top-level part, next to the ones above
EmailForms ==
    EmailInputs \cup
    {<<"@", "b", ".", "c">>, <<"a", " ", "@", "b", ".", "c">>,
     <<"a", "@", "@", "b", ".", "c">>, <<"a", "@", "b", ".">>}

\* no answer, an answer the table accepts, an answer its CHECK rejects
EmailPayloads == {<<>>, <<RatingAnswer(1, 3)>>, <<RatingAnswer(1, 6)>>}

NextEmail ==
    \/ Tick
    \/ \E sv \in SurveyIds : generatePublicAccessToken(sv)
    \/ \E t \in TokenInputs, e \in Optional(EmailForms), rs \in EmailPayloads :
          submitPublicSurveyResponse(t, e, rs)

SpecEmail == InitAll /\ [][NextEmail]_vars

(* ------------- submissions with answers in every value slot ------------ *)
\* an answer in the slot of its question's type, a rating sent to the NUMBER
\* question, and an answer to the RATING question with a text next to the
\* rating
SlotAnswerInputs ==
    {RatingAnswer(1, 3), RatingAnswer(2, 3), Answer(1, {"x"}, {}, {}, {}, {4})}

SlotPayloads == {<<>>} \cup { <<a>> : a \in SlotAnswerInputs }

NextSlots ==
    \/ \E u \in UserIds, sv \in SurveyIds, rs \in SlotPayloads :
          submitSurveyResponse(u, sv, rs)
    \/ \E u \in UserIds, sv \in SurveyIds, rs \in SlotPayloads :
          saveSurveyProgress(u, sv, rs)
    \/ \E sv \in SurveyIds : generatePublicAccessToken(sv)
    \/ \E t \in TokenInputs, rs \in SlotPayloads :
          submitPublicSurveyResponse(t, {<<"a", "@", "b", ".", "c">>}, rs)

SpecSlots == InitAll /\ [][NextSlots]_vars

(* ----------------- the authenticated calls, interleaved ---------------- *)
ConcPayloads == {<<RatingAnswer(1, 3)>>}

NextConc ==
    \/ \E p \in Procs, op \in {"submit", "saveProgress"}, u \in UserIds,
          sv \in SurveyIds, rs \in ConcPayloads : Start(p, op, u, sv, rs)
    \/ \E p \in Procs, c \in Conns : Begin(p, c)
    \/ \E p \in Procs, c \in Conns : Select(p, c)
    \/ \E p \in Procs, c \in Conns : Delete(p, c)
    \/ \E p \in Procs, c \in Conns : Update(p, c)
    \/ \E p \in Procs, c \in Conns : Insert(p, c)
    \/ \E p \in Procs, c \in Conns : InsertAnswerStep(p, c)
    \/ \E p \in Procs, c \in Conns : Commit(p, c)
    \/ \E p \in Procs, c \in Conns, d \in Conns : Read(p, c, d)
    \/ \E p \in Procs, c \in Conns : Rollback(p, c)

SpecConc == InitAll /\ [][NextConc]_vars

(* ------------------------- response statistics ------------------------- *)
\* a JavaScript number that is the quotient num / den
Quotient(num, den) == [num |-> num, den |-> den]

\* getSurveyById: the surveys row of the id ({} when there is none); its
\* questions are the survey_questions rows of the survey, and the options of
\* a question are its survey_question_options rows
getSurveyById(tables, id) == { s \in tables.surveys : s.id = id }

SurveyQuestions(tables, surveyId) ==
    { q \in tables.survey_questions : q.survey_id = surveyId }

QuestionOptions(tables, question) ==
    { o \in tables.survey_question_options : o.question_id = question.id }

\* .. FROM survey_question_responses WHERE question_id = $1
AnswersTo(tables, questionId) ==
    { a \in tables.survey_question_responses : a.question_id = questionId }

\* the count query of getSurveyResponseStats with WHERE is_complete = true
countResultOfComplete(tables, surveyId) ==
    LET complete == { r \in tables.survey_responses :
                        r.survey_id = surveyId /\ r.is_complete }
    IN  [total_responses |-> Cardinality(complete),
         completed_responses |-> Cardinality(complete)]

\* SELECT COUNT(*) as total_responses, COUNT(CASE WHEN is_complete = true
\* THEN 1 END) as completed_responses FROM survey_responses WHERE survey_id = $1
countResult(tables, surveyId) ==
    LET rows == { r \in tables.survey_responses : r.survey_id = surveyId }
    IN  [total_responses |-> Cardinality(rows),
         completed_responses |-> Cardinality({ r \in rows : r.is_complete })]

\* SELECT COUNT(*) as count, AVG(rating_response) as avg_rating,
\* rating_response, COUNT(*) as rating_count FROM survey_question_responses
\* WHERE question_id = $1 AND rating_response IS NOT NULL GROUP BY
\* rating_response: one row per rating value, with the average of its group
ratingResult(tables, questionId) ==
    LET rated == { a \in AnswersTo(tables, questionId) : a.rating_response # {} }
        group(v) == { a \in rated : a.rating_response = {v} }
    IN  { [rating_response |-> v,
           avg_rating |-> Quotient(v * Cardinality(group(v)), Cardinality(group(v))),
           rating_count |-> Cardinality(group(v))] :
          v \in UNION { a.rating_response : a \in rated } }

\* ratingResult.rows.reduce((sum, row) => sum + parseInt(row.rating_count), 0)
RECURSIVE SumRatingCounts(_)
SumRatingCounts(rows) ==
    IF rows = {} THEN 0
    ELSE LET r == CHOOSE x \in rows : TRUE
         IN  r.rating_count + SumRatingCounts(rows \ {r})

\* SUM(CASE WHEN text_response = $value THEN 1 ELSE 0 END) over the rows the
\* WHERE clause kept: the number of rows whose text equals the value, and
\* NULL ({}) when there is no row, as SUM over no rows is NULL
SumCase(rows, value) ==
    IF rows = {} THEN {}
    ELSE {Cardinality({ a \in rows : a.text_response = {value} })}

\* the number JavaScript's NaN is written as
NaN == 0 - 2

\* parseInt of a column value: the number, and NaN for NULL
parseIntOrNaN(column) ==
    IF column = {} THEN NaN ELSE CHOOSE n \in column : TRUE

\* the QuestionStats of one question; an optional field is {} while it is
\* undefined.  firstRow gives, for a RATING question, the row the database
\* returned first (GROUP BY fixes no order).
questionStats(tables, question, firstRow) ==
    LET stats == [question_id |-> question.id,
                  question_type |-> question.question_type,
                  response_count |-> 0,
                  average_rating |-> {}, rating_distribution |-> {},
                  yes_count |-> {}, no_count |-> {}, option_counts |-> {}]
        answers == AnswersTo(tables, question.id)
        rows == ratingResult(tables, question.id)
        texts == { a \in answers : a.text_response # {} }
        options == QuestionOptions(tables, question)
        count(o) == Cardinality({ a \in answers :
                                    \E ids \in a.selected_option_ids : o.id \in ids })
    IN  IF question.question_type = "RATING"
          THEN IF rows = {} THEN stats
               ELSE [stats EXCEPT
                       !.response_count = SumRatingCounts(rows),
                       !.average_rating = {firstRow[question.id].avg_rating},
                       !.rating_distribution =
                           {[v \in { r.rating_response : r \in rows } |->
                               (CHOOSE r \in rows : r.rating_response = v).rating_count]}]
        ELSE IF question.question_type = "YES_NO"
          THEN [stats EXCEPT
                  !.response_count = Cardinality(texts),
                  !.yes_count = {parseIntOrNaN(SumCase(texts, "Yes"))},
                  !.no_count = {parseIntOrNaN(SumCase(texts, "No"))}]
        ELSE IF question.question_type \in {"MULTIPLE_CHOICE", "CHECKBOX"}
          THEN [stats EXCEPT
                  !.option_counts =
                      {[id \in { o.id : o \in options } |->
                          LET o == CHOOSE x \in options : x.id = id
                          IN  [count |-> count(o),
                               percentage |->
                                   IF stats.response_count > 0
                                     THEN Quotient(count(o) * 100, stats.response_count)
                                     ELSE Quotient(0, 1)]]},
                  !.response_count =
                      Cardinality({ a \in answers : a.selected_option_ids # {} })]
        ELSE IF question.question_type \in {"TEXT", "TEXTAREA"}
          THEN [stats EXCEPT
                  !.response_count =
                      IF Cardinality(texts) > 5 THEN 5 ELSE Cardinality(texts)]
        ELSE stats

\* getSurveyResponseStats for a survey that exists (average_completion_time
\* and the sample texts are left out)
getSurveyResponseStats(tables, surveyId, firstRow) ==
    LET counts == countResult(tables, surveyId)
        totalResponses == counts.total_responses
        completedResponses == counts.completed_responses
    IN  [survey_id |-> surveyId,
         total_responses |-> totalResponses,
         completed_responses |-> completedResponses,
         partial_responses |-> totalResponses - completedResponses,
         completion_rate |-> IF totalResponses > 0
                               THEN Quotient(completedResponses, totalResponses)
                               ELSE Quotient(0, 1),
         question_stats |-> { questionStats(tables, q, firstRow) :
                                q \in SurveyQuestions(tables, surveyId) }]

\* the orders in which the rating rows of the questions of a survey can come
\* back: for every RATING question with answers, the row that comes first
FirstRows(tables, surveyId) ==
    LET rated == { q.id : q \in { x \in SurveyQuestions(tables, surveyId) :
                                    /\ x.question_type = "RATING"
                                    /\ ratingResult(tables, x.id) # {} } }
    IN  { f \in [rated -> UNION { ratingResult(tables, q) : q \in rated }] :
            \A q \in rated : f[q] \in ratingResult(tables, q) }

\* outcome of a read call on a survey: as Call, with the body of the response
\* ({} when the response is an error)
Reply(op, survey, status, error, body) ==
    [op |-> op, user |-> "none", survey |-> survey, token |-> NULL,
     status |-> status, error |-> error, responseId |-> NULL, body |-> body]

\* getSurveyStats: the handler of GET /surveys/:id/stats
getSurveyStats(surveyId) ==
    /\ IF getSurveyById(sdb, surveyId) = {}
         THEN lastCall' = Reply("getSurveyStats", surveyId, 500,
                                "Failed to fetch stats", {})
         ELSE \E firstRow \in FirstRows(sdb, surveyId) :
                lastCall' = Reply("getSurveyStats", surveyId, 200, "none",
                                  {getSurveyResponseStats(sdb, surveyId, firstRow)})
    /\ UNCHANGED <<now, gateVars, sdb, respSeq, tokenSeq, poolVars>>

\* ratings.reduce((sum, r) => sum + r, 0)
RECURSIVE SumRatings(_)
SumRatings(answers) ==
    IF answers = {} THEN 0
    ELSE LET a == CHOOSE x \in answers : TRUE
         IN  (CHOOSE r \in a.rating_response : TRUE) + SumRatings(answers \ {a})

\* one entry of the map getAggregatedSurveyResponses returns: the answers of
\* completed responses to the question and their summary (the list of
\* formatted answers is left out)
aggregatedQuestion(tables, question) ==
    LET rows == { a \in AnswersTo(tables, question.id) :
                    \E r \in tables.survey_responses :
                        r.id = a.response_id /\ r.is_complete }
        ratings == { a \in rows : a.rating_response # {} }
        options == QuestionOptions(tables, question)
        totalResponses == Cardinality(rows)
        count(o) == Cardinality({ a \in rows :
                                    \E ids \in a.selected_option_ids : o.id \in ids })
        stats == [average |-> {}, distribution |-> {}, option_counts |-> {},
                  yes_count |-> {}, no_count |-> {}]
    IN  [question_id |-> question.id,
         question_type |-> question.question_type,
         response_count |-> Cardinality(rows),
         stats |->
           IF question.question_type = "RATING" /\ rows # {}
             THEN [stats EXCEPT
                     !.average = {Quotient(SumRatings(ratings), Cardinality(ratings))},
                     !.distribution =
                         {[v \in UNION { a.rating_response : a \in ratings } |->
                             Cardinality({ a \in ratings : a.rating_response = {v} })]}]
           ELSE IF question.question_type \in {"MULTIPLE_CHOICE", "CHECKBOX"}
             THEN [stats EXCEPT
                     !.option_counts =
                         {[id \in { o.id : o \in options } |->
                             LET o == CHOOSE x \in options : x.id = id
                             IN  [count |-> count(o),
                                  percentage |->
                                      IF totalResponses > 0
                                        THEN Quotient(count(o) * 100, totalResponses)
                                        ELSE Quotient(0, 1)]]}]
           ELSE IF question.question_type = "YES_NO"
             THEN [stats EXCEPT
                     !.yes_count =
                         {Cardinality({ a \in rows : a.text_response = {"Yes"} })},
                     !.no_count =
                         {Cardinality({ a \in rows : a.text_response = {"No"} })}]
           ELSE stats]

\* getAggregatedSurveyResponses for a survey that exists
getAggregatedSurveyResponses(tables, surveyId) ==
    { aggregatedQuestion(tables, q) : q \in SurveyQuestions(tables, surveyId) }

\* getAggregatedResponses: the handler of GET /surveys/:id/aggregated-responses
getAggregatedResponses(surveyId) ==
    /\ lastCall' =
         IF getSurveyById(sdb, surveyId) = {}
           THEN Reply("getAggregatedResponses", surveyId, 500,
                      "Failed to fetch aggregated responses", {})
           ELSE Reply("getAggregatedResponses", surveyId, 200, "none",
                      {getAggregatedSurveyResponses(sdb, surveyId)})
    /\ UNCHANGED <<now, gateVars, sdb, respSeq, tokenSeq, poolVars>>

(* ---------------- the statistics over stored responses ----------------- *)
\* The statistics are functions of the stored rows, so they are applied to
\* tables drawn from the rows submit and saveProgress write: up to
\* MaxStatResp responses to survey 1 (question 1 RATING, question 3 CHECKBOX
\* with options 1 and 2), each of its own user, complete or not, with or
\* without a rating and a selection.  Survey 2 has no question; no survey has
\* id 3.  The statistics do not depend on which response carries which
\* answers, so the responses are drawn in one order.
OptionsAnswer(q, ids) == Answer(q, {}, {}, {}, {ids}, {})

StatUserNames == <<"u1", "u2", "u3", "u4", "u5", "u6">>

StatProfiles ==
    [complete : BOOLEAN, rating : Optional({3, 4, 5}), options : Optional({{1}, {1, 2}})]

ProfileRank(p) ==
    (IF p.complete THEN 12 ELSE 0)
    + 3 * (IF p.rating = {} THEN 0 ELSE (CHOOSE r \in p.rating : TRUE) - 2)
    + (IF p.options = {} THEN 0 ELSE Cardinality(CHOOSE s \in p.options : TRUE))

StatSurveyIds == {1, 2, 3}

StatTables(profiles, other) ==
    LET n == Len(profiles)
    IN  [surveys |->
           { [id |-> sv, status |-> "ACTIVE", allow_public_access |-> FALSE,
              public_access_token |-> NULL, public_access_expires_at |-> NULL] :
             sv \in {1, 2} },
         survey_questions |->
           {[id |-> 1, survey_id |-> 1, question_type |-> "RATING"],
            [id |-> 3, survey_id |-> 1, question_type |-> "CHECKBOX"]},
         survey_question_options |->
           {[id |-> 1, question_id |-> 3], [id |-> 2, question_id |-> 3]},
         survey_responses |->
           { ResponseRow(i, 1, {StatUserNames[i]},
                         IF profiles[i].complete THEN 0 ELSE NULL,
                         profiles[i].complete, {}, FALSE) : i \in 1..n }
           \cup (IF other
                   THEN {ResponseRow(n + 1, 2, {StatUserNames[1]}, 0, TRUE, {}, FALSE)}
                   ELSE {}),
         survey_question_responses |->
           { AnswerRow(i, RatingAnswer(1, CHOOSE r \in profiles[i].rating : TRUE)) :
               i \in { j \in 1..n : profiles[j].rating # {} } }
           \cup { AnswerRow(i, OptionsAnswer(3, CHOOSE s \in profiles[i].options : TRUE)) :
                    i \in { j \in 1..n : profiles[j].options # {} } }]

InitStats ==
    /\ now = 0
    /\ db = InitDb
    /\ nextId = 1
    /\ lastReq = NoReq
    /\ \E n \in 0..MaxStatResp, other \in BOOLEAN :
          \E profiles \in [1..n -> StatProfiles] :
             /\ \A i \in 1..n : \A j \in 1..n :
                   i < j => ProfileRank(profiles[i]) <= ProfileRank(profiles[j])
             /\ sdb = StatTables(profiles, other)
             /\ respSeq = n + 2
    /\ tokenSeq = 1
    /\ lastCall = NoCall
    /\ proc = [p \in Procs |-> IdleProc]
    /\ conn = [c \in Conns |-> IdleConn]

NextStats ==
    \/ \E sv \in StatSurveyIds : getSurveyStats(sv)
    \/ \E sv \in StatSurveyIds : getAggregatedResponses(sv)

SpecStats == InitStats /\ [][NextStats]_vars

(* ======================================================================= *)
(* C1: every create, update or delete request that changed an entity of a  *)
(* tour was issued while now <= end_date of that tour (the "only if" half  *)
(* of "a mutation succeeds iff the tour has not ended"), whichever of the  *)
(* join chains resolves the tour.                                          *)
(* ======================================================================= *)
C1_NoMutationAfterEnd ==
    (lastReq.op # "none" /\ lastReq.ok) => lastReq.gate # "TourEnded"

(* ======================================================================= *)
(* C2: when two submit calls for the same new (survey, user) pair race     *)
(* (each read "no existing response" before the other inserted) and both   *)
(* have returned, the duplicate-key error of the unique index has reached  *)
(* neither caller (the loser was recovered as an update).                  *)
(* ======================================================================= *)
C2_RacingSubmitsBothSucceed ==
    \A p \in Procs : \A q \in Procs \ {p} :
        ( /\ proc[p].raced /\ proc[q].raced
          /\ proc[p].op = "submit" /\ proc[q].op = "submit"
          /\ proc[p].pc = "idle" /\ proc[q].pc = "idle" )
        => /\ proc[p].error # "survey_responses_unique_user"
           /\ proc[q].error # "survey_responses_unique_user"

(* ======================================================================= *)
(* C3: a submission that fails leaves none of its effects: a step whose    *)
(* call is answered with an error status leaves the survey tables as they  *)
(* were before the call (no response row, no part of an answer set).       *)
(* ======================================================================= *)
C3_FailedCallLeavesNothing ==
    [][(lastCall'.op # "none" /\ lastCall'.status >= 400) => sdb' = sdb]_vars

\* the answer row a payload entry describes, value slots as the caller sent them
PayloadRow(responseId, a) ==
    [response_id |-> responseId, question_id |-> a.question_id,
     text_response |-> a.text_response, number_response |-> a.number_response,
     date_response |-> a.date_response,
     selected_option_ids |-> a.selected_option_ids,
     rating_response |-> a.rating_response]

AnswersOf(tables, responseId) ==
    { a \in tables.survey_question_responses : a.response_id = responseId }

(* ======================================================================= *)
(* C4: a successful submit(survey, user, B) on a pair that already has a   *)
(* response leaves exactly one response row for the pair, complete, whose  *)
(* answer rows are exactly the entries of B (nothing written earlier       *)
(* survives, every entry of B is stored with B's value).                   *)
(* ======================================================================= *)
C4_SubmitReplacesAnswers ==
    [][\A u \in UserIds, sv \in SurveyIds, rs \in AuthPayloads :
         ( /\ ExistingResponse(sdb, sv, u) # {}
           /\ submitSurveyResponse(u, sv, rs)
           /\ lastCall'.status = 201 )
         => LET rows == ExistingResponse(sdb', sv, u)
            IN  /\ Cardinality(rows) = 1
                /\ \A r \in rows :
                     /\ r.is_complete
                     /\ AnswersOf(sdb', r.id) =
                            { PayloadRow(r.id, rs[i]) : i \in 1..Len(rs) }]_vars

(* ======================================================================= *)
(* C5: a successful saveProgress(survey, user, B) on a pair that already   *)
(* has a response stores B's value for every question id in B and leaves   *)
(* every other answer row (of this and of every other response) as it was. *)
(* ======================================================================= *)
C5_SaveProgressFrame ==
    [][\A u \in UserIds, sv \in SurveyIds, rs \in AuthPayloads :
         ( /\ ExistingResponse(sdb, sv, u) # {}
           /\ saveSurveyProgress(u, sv, rs)
           /\ lastCall'.status = 200 )
         => LET id == (CHOOSE r \in ExistingResponse(sdb, sv, u) : TRUE).id
                ids == { rs[i].question_id : i \in 1..Len(rs) }
                Untouched(a) == a.response_id # id \/ a.question_id \notin ids
            IN  /\ \A i \in 1..Len(rs) :
                     (\A j \in 1..Len(rs) :
                          j > i => rs[j].question_id # rs[i].question_id)
                     => PayloadRow(id, rs[i]) \in sdb'.survey_question_responses
                /\ { a \in sdb.survey_question_responses : Untouched(a) }
                   = { a \in sdb'.survey_question_responses : Untouched(a) }]_vars

(* ======================================================================= *)
(* C6: under every interleaving of submit and saveProgress requests, the   *)
(* committed table, and what every connection reads, holds at most one     *)
(* survey_responses row per (survey_id, user_id) with user_id not NULL.    *)
(* ======================================================================= *)
OneRowPerUser(responses) ==
    \A r1 \in responses, r2 \in responses :
        (r1.user_id # {} /\ r1.survey_id = r2.survey_id /\ r1.user_id = r2.user_id)
        => r1 = r2

C6_OneResponsePerUser ==
    /\ OneRowPerUser(sdb.survey_responses)
    /\ \A c \in Conns : OneRowPerUser(Visible(c).survey_responses)

\* two requests for the same new pair, a submit and a saveProgress, have raced
\* and returned, and the pair has one committed row
C6_Witness ==
    \E p \in Procs : \E q \in Procs \ {p} :
        /\ proc[p].raced /\ proc[q].raced
        /\ proc[p].op = "submit" /\ proc[q].op = "saveProgress"
        /\ proc[p].pc = "idle" /\ proc[q].pc = "idle"
        /\ Cardinality(ExistingResponse(sdb, proc[p].survey, proc[p].user)) = 1

(* ======================================================================= *)
(* C7: is_complete is monotonic: every step keeps every response row, a    *)
(* complete row stays complete, and a row becomes complete only in a step  *)
(* of submit.                                                              *)
(* ======================================================================= *)
C7_IsCompleteMonotonic ==
    [][\A r \in sdb.survey_responses :
         \E r2 \in sdb'.survey_responses :
            /\ r2.id = r.id
            /\ r.is_complete => r2.is_complete
            /\ (~r.is_complete /\ r2.is_complete) => lastCall'.op = "submit"]_vars

\* a saveProgress has just been served for a response that is complete
C7_Witness ==
    /\ lastCall.op = "saveProgress"
    /\ lastCall.status = 200
    /\ \E r \in sdb.survey_responses : r.id = lastCall.responseId /\ r.is_complete

(* ======================================================================= *)
(* C8: a step of saveProgress changes is_complete and submitted_at of no   *)
(* existing response row; it adds exactly one row, with is_complete =      *)
(* FALSE, when it succeeds for a pair that had none, and no row otherwise. *)
(* ======================================================================= *)
C8_SaveProgressKeepsCompletion ==
    [][lastCall'.op = "saveProgress" =>
         LET created == { r \in sdb'.survey_responses :
                            \A r0 \in sdb.survey_responses : r0.id # r.id }
             hadNone == ExistingResponse(sdb, lastCall'.survey, lastCall'.user) = {}
         IN  /\ \A r \in sdb.survey_responses :
                  \E r2 \in sdb'.survey_responses :
                     /\ r2.id = r.id
                     /\ r2.is_complete = r.is_complete
                     /\ r2.submitted_at = r.submitted_at
             /\ IF hadNone /\ lastCall'.status = 200
                  THEN /\ Cardinality(created) = 1
                       /\ \A r \in created :
                            /\ r.is_complete = FALSE
                            /\ r.survey_id = lastCall'.survey
                            /\ r.user_id = {lastCall'.user}
                  ELSE created = {}]_vars

\* a saveProgress has just been served, later than the submit that completed
\* the response
C8_Witness ==
    /\ lastCall.op = "saveProgress"
    /\ lastCall.status = 200
    /\ \E r \in sdb.survey_responses :
          /\ r.id = lastCall.responseId
          /\ r.is_complete
          /\ r.submitted_at # NULL
          /\ r.submitted_at < now

(* ======================================================================= *)
(* C9: a successful submitAnonymous adds exactly one response row, with    *)
(* user_id NULL, is_anonymous and is_complete, keeps every response row    *)
(* and every answer row that existed, and attaches its answers to the new  *)
(* row only - whichever e-mail addresses earlier submissions carried.      *)
(* ======================================================================= *)
C9_AnonymousAlwaysAddsOneRow ==
    [][(lastCall'.op = "submitAnonymous" /\ lastCall'.status = 201) =>
         LET created == sdb'.survey_responses \ sdb.survey_responses
         IN  /\ sdb.survey_responses \subseteq sdb'.survey_responses
             /\ sdb.survey_question_responses \subseteq sdb'.survey_question_responses
             /\ Cardinality(created) = 1
             /\ Cardinality(sdb'.survey_responses)
                  = Cardinality(sdb.survey_responses) + 1
             /\ \A r \in created :
                  /\ r.id = lastCall'.responseId
                  /\ \A r0 \in sdb.survey_responses : r0.id # r.id
                  /\ r.user_id = {}
                  /\ r.is_anonymous
                  /\ r.is_complete
                  /\ \A a \in sdb'.survey_question_responses
                            \ sdb.survey_question_responses : a.response_id = r.id]_vars

\* a second anonymous submission with the e-mail address of an earlier one has
\* just succeeded, and both rows are there
C9_Witness ==
    /\ lastCall.op = "submitAnonymous"
    /\ lastCall.status = 201
    /\ \E r1 \in sdb.survey_responses, r2 \in sdb.survey_responses :
          /\ r1.id # r2.id
          /\ r1.is_anonymous /\ r2.is_anonymous
          /\ r1.survey_id = r2.survey_id
          /\ r1.respondent_email = r2.respondent_email

\* the condition of the claim on a token at the time of the call
C10_TokenAccepted(token) ==
    \E s \in sdb.surveys :
        /\ s.public_access_token = token
        /\ s.allow_public_access
        /\ s.status = "ACTIVE"
        /\ (s.public_access_expires_at = NULL \/ now < s.public_access_expires_at)

C11_TourEndedIs403 ==
    (lastReq.op # "none" /\ lastReq.thrown = TourEndedMessage)
        => (lastReq.status = 403 /\ lastReq.error = TourEndedMessage)

(* ======================================================================= *)
(* C12: a mutating request whose join chain resolves no tour is answered   *)
(* 404 and writes nothing, and a request writes only when its join chain   *)
(* resolved a tour with now <= end_date.                                   *)
(* ======================================================================= *)
C12_JoinChainMissIs404 ==
    [][lastReq'.op # "none" =>
         /\ lastReq'.gate = "NotFound" => (lastReq'.status = 404 /\ db' = db)
         /\ db' # db => lastReq'.gate = "Ok"]_vars

(* ======================================================================= *)
(* C13: for a RATING question the statistics give average_rating = (sum of *)
(* the rating answers) / (number of rating answers), rating_distribution = *)
(* the number of occurrences of each occurring rating value, and           *)
(* response_count = the sum of the distribution; for {3,3,4,5} the average *)
(* is 15/4.                                                                *)
(* ======================================================================= *)
C13_RatingStats ==
    (lastCall.op = "getSurveyStats" /\ lastCall.status = 200) =>
        \A body \in lastCall.body : \A qs \in body.question_stats :
            LET rated == { a \in AnswersTo(sdb, qs.question_id) :
                             a.rating_response # {} }
                values == UNION { a.rating_response : a \in rated }
            IN  (qs.question_type = "RATING" /\ rated # {}) =>
                  /\ qs.average_rating # {}
                  /\ \A avg \in qs.average_rating :
                        avg.num * Cardinality(rated) = SumRatings(rated) * avg.den
                  /\ qs.rating_distribution =
                        {[v \in values |->
                            Cardinality({ a \in rated : a.rating_response = {v} })]}
                  /\ qs.response_count = Cardinality(rated)

(* ======================================================================= *)
(* C14: for a MULTIPLE_CHOICE or CHECKBOX question the statistics give,    *)
(* for each declared option, count = the number of answers whose           *)
(* selected_option_ids contains the option id, and percentage = 100 *      *)
(* count / (number of answers to the question with any selection).         *)
(* ======================================================================= *)
C14_OptionStats ==
    (lastCall.op = "getSurveyStats" /\ lastCall.status = 200) =>
        \A body \in lastCall.body : \A qs \in body.question_stats :
            LET selecting == { a \in AnswersTo(sdb, qs.question_id) :
                                 a.selected_option_ids # {} }
                declared == { o.id : o \in { x \in sdb.survey_question_options :
                                               x.question_id = qs.question_id } }
                chosen(id) == { a \in selecting :
                                  \E ids \in a.selected_option_ids : id \in ids }
            IN  qs.question_type \in {"MULTIPLE_CHOICE", "CHECKBOX"} =>
                  /\ qs.option_counts # {}
                  /\ \A oc \in qs.option_counts :
                        /\ DOMAIN oc = declared
                        /\ \A id \in declared :
                              /\ oc[id].count = Cardinality(chosen(id))
                              /\ selecting # {} =>
                                    oc[id].percentage.num * Cardinality(selecting)
                                        = 100 * oc[id].count * oc[id].percentage.den

(* ======================================================================= *)
(* C15: the statistics give total_responses = the number of response rows  *)
(* of the survey, completed_responses = the number of those with           *)
(* is_complete = true (at most the total), partial_responses = total -     *)
(* completed and completion_rate = completed / total, which is 0 when the  *)
(* total is 0.                                                             *)
(* ======================================================================= *)
C15_ResponseCounts ==
    (lastCall.op = "getSurveyStats" /\ lastCall.status = 200) =>
        \A body \in lastCall.body :
            LET rows == { r \in sdb.survey_responses : r.survey_id = lastCall.survey }
                total == Cardinality(rows)
                completed == Cardinality({ r \in rows : r.is_complete })
            IN  /\ body.total_responses = total
                /\ body.completed_responses = completed
                /\ body.completed_responses <= body.total_responses
                /\ body.partial_responses = total - completed
                /\ body.completion_rate.den # 0
                /\ IF total = 0
                     THEN body.completion_rate.num = 0
                     ELSE body.completion_rate.num * total
                              = completed * body.completion_rate.den

\* statistics served for a survey with both complete and incomplete
\* responses, while another survey has a response of its own
C15_Witness ==
    /\ lastCall.op = "getSurveyStats"
    /\ lastCall.status = 200
    /\ \E body \in lastCall.body :
          /\ 0 < body.completed_responses
          /\ body.completed_responses < body.total_responses
          /\ body.total_responses < Cardinality(sdb.survey_responses)

(* ======================================================================= *)
(* C18: the statistics and the aggregated responses of a survey id that    *)
(* does not resolve are answered with 404 (survey not found); for a survey *)
(* that exists and has no question they are answered with an empty list of *)
(* question statistics / an empty aggregate, not with an error.            *)
(* ======================================================================= *)
C18_SurveyNotFoundIs404 ==
    lastCall.op \in {"getSurveyStats", "getAggregatedResponses"} =>
        IF getSurveyById(sdb, lastCall.survey) = {}
          THEN lastCall.status = 404
          ELSE SurveyQuestions(sdb, lastCall.survey) = {} =>
                 /\ lastCall.status = 200
                 /\ lastCall.op = "getSurveyStats" =>
                        \A body \in lastCall.body : body.question_stats = {}
                 /\ lastCall.op = "getAggregatedResponses" =>
                        lastCall.body = {{}}

(* ======================================================================= *)
(* C16: a public token submission whose body has no respondent_email is    *)
(* answered 400 {error: "Email is required for anonymous survey            *)
(* responses"} and writes no response row and no answer row, whatever the  *)
(* token (valid or not) and the responses payload.                         *)
(* ======================================================================= *)
C16_MissingEmailRejected ==
    [][\A t \in TokenInputs : \A rs \in EmailPayloads :
          submitPublicSurveyResponse(t, {}, rs) =>
              /\ lastCall'.status = 400
              /\ lastCall'.error = "Email is required for anonymous survey responses"
              /\ sdb' = sdb
              /\ respSeq' = respSeq]_vars

\* a submission without e-mail was rejected although its token is accepted
C16_Witness ==
    /\ lastCall.op = "submitAnonymous"
    /\ lastCall.error = "Email is required for anonymous survey responses"
    /\ PublicSurvey(sdb, lastCall.token) # {}

(* ======================================================================= *)
(* C17: an anonymous submission whose respondent e-mail does not have the  *)
(* form local@domain.tld (non-empty local part, one '@', a domain with a   *)
(* '.', no whitespace) is answered 400 and writes no response row and no   *)
(* answer row; when the token is accepted and the e-mail is not the empty  *)
(* string, the error is the invalid-e-mail error.                          *)
(* ======================================================================= *)
C17_InvalidEmailRejected ==
    [][\A t \in TokenInputs : \A e \in EmailForms : \A rs \in EmailPayloads :
          LET ats == { i \in 1..Len(e) : e[i] = "@" }
              at == CHOOSE i \in ats : TRUE
              wellFormed ==
                  /\ Cardinality(ats) = 1
                  /\ at > 1
                  /\ \A i \in 1..Len(e) : e[i] # " "
                  /\ \E d \in (at + 2)..(Len(e) - 1) : e[d] = "."
          IN  (~wellFormed /\ submitPublicSurveyResponse(t, {e}, rs)) =>
                 /\ lastCall'.status = 400
                 /\ sdb' = sdb
                 /\ respSeq' = respSeq
                 /\ (e # <<>> /\ PublicSurvey(sdb, t) # {}) =>
                        lastCall'.error = "Invalid email format"]_vars

\* a submission was rejected for its e-mail although its token is accepted
C17_Witness ==
    /\ lastCall.op = "submitAnonymous"
    /\ lastCall.status = 400
    /\ lastCall.error = "Invalid email format"
    /\ PublicSurvey(sdb, lastCall.token) # {}

(* ======================================================================= *)
(* C19: every stored answer row has exactly one non-null value slot among  *)
(* text_response, number_response, date_response, rating_response and      *)
(* selected_option_ids, and it is the slot of the declared type of the     *)
(* row's question (TEXT / TEXTAREA / YES_NO: text, NUMBER: number, DATE:   *)
(* date, RATING: rating, MULTIPLE_CHOICE / CHECKBOX: selected_option_ids). *)
(* ======================================================================= *)
C19_OneSlotOfDeclaredType ==
    \A row \in sdb.survey_question_responses :
        \A q \in { x \in sdb.survey_questions : x.id = row.question_id } :
            LET slots == {"text_response", "number_response", "date_response",
                          "rating_response", "selected_option_ids"}
                declared ==
                    CASE q.question_type \in {"TEXT", "TEXTAREA", "YES_NO"} ->
                             "text_response"
                      [] q.question_type = "NUMBER" -> "number_response"
                      [] q.question_type = "DATE" -> "date_response"
                      [] q.question_type = "RATING" -> "rating_response"
                      [] q.question_type \in {"MULTIPLE_CHOICE", "CHECKBOX"} ->
                             "selected_option_ids"
            IN  { c \in slots : row[c] # {} } = {declared}

(* ======================================================================= *)
(* C20: across createTour, updateTour and updateTourStatus the status of a *)
(* tour only moves one step forward along Draft -> Pending -> Completed:   *)
(* never backward, never past Pending, never out of Completed.             *)
(* ======================================================================= *)
C20_StatusOneStepForward ==
    [][\A t \in db.tours : \A u \in db'.tours :
          (u.id = t.id /\ u.status # t.status) =>
              <<t.status, u.status>> \in
                  {<<"Draft", "Pending">>, <<"Pending", "Completed">>}]_vars

(* ======================================================================= *)
(* C21: the decision of the gate on a request depends only on the stored   *)
(* end_date of the tour and the clock at that request, never on an earlier *)
(* decision: a request whose tour is found is rejected as ended, and       *)
(* writes nothing, whenever the clock has passed end_date (also when an    *)
(* earlier request was accepted), and is not rejected as ended whenever    *)
(* the clock has not passed the stored end_date (also after updateTour     *)
(* has moved it).                                                          *)
(* ======================================================================= *)
C21_DecisionFollowsEndDate ==
    [][lastReq'.op \in {"createNote", "createActivityMessage"} =>
          /\ ( /\ \A t \in db.tours : now > t.end_date
               /\ lastReq'.thrown \notin {"23503", "Activity not found"} ) =>
                 (db' = db /\ lastReq'.thrown = TourEndedMessage)
          /\ (\A t \in db.tours : now <= t.end_date) =>
                 lastReq'.thrown # TourEndedMessage]_vars

\* a note of the activity was accepted earlier and the next one is rejected
\* as ended
C21_Witness ==
    /\ lastReq.op = "createNote"
    /\ lastReq.thrown = TourEndedMessage
    /\ \E n \in db.notes : \E t \in db.tours : now > t.end_date

\* a note was accepted after updateTour had moved end_date past a clock that
\* had already passed the first end_date
C21_WitnessReopened ==
    /\ lastReq.op = "createNote"
    /\ lastReq.ok
    /\ now = MaxTime

(* ======================================================================= *)
(* C22: a createNote or createActivityMessage request rejected because the *)
(* tour has ended leaves storage unchanged: no note row, no auto-created   *)
(* discussion row and no discussion_messages row is added, and no id is    *)
(* drawn.                                                                  *)
(* ======================================================================= *)
C22_RejectedWritesNothing ==
    [][( /\ lastReq'.op \in {"createNote", "createActivityMessage"}
         /\ lastReq'.thrown = TourEndedMessage ) =>
           (db' = db /\ nextId' = nextId)]_vars

\* a first message for an activity without discussion was rejected, and no
\* discussion was created for it
C22_Witness ==
    /\ lastReq.op = "createActivityMessage"
    /\ lastReq.thrown = TourEndedMessage
    /\ db.discussions = {}
    /\ db.discussion_messages = {}

\* a note was rejected while a note of the same tour is stored
C22_WitnessNote ==
    /\ lastReq.op = "createNote"
    /\ lastReq.thrown = TourEndedMessage
    /\ db.notes # {}

(* ======================================================================= *)
(* C23: each of the nine gate functions gives, for its own join chain,     *)
(* NotFound when the chain resolves no row, TourEnded when a row is found  *)
(* and now > end_date, and success otherwise (also at now = end_date); a   *)
(* call changes no stored state.                                           *)
(* ======================================================================= *)
C23_ThreeWay ==
    LET decision(tours) ==
            IF tours = {} THEN "NotFound"
            ELSE IF \E t \in tours : now > t.end_date THEN "TourEnded"
            ELSE "Ok"
        ofTour(tourId) == { t \in db.tours : t.id = tourId }
        ofActivity(activityId) ==
            { t \in db.tours : \E a \in db.activities :
                  a.id = activityId /\ a.tour_id = t.id }
        ofDiscussion(discussionId) ==
            { t \in db.tours : \E d \in db.discussions :
                  d.id = discussionId /\ d.tour_id = t.id }
        ofTeam(teamId) ==
            { t \in db.tours : \E dt \in db.discussion_teams, a \in db.activities :
                  /\ dt.id = teamId /\ dt.discussion_activity_id = a.id
                  /\ a.tour_id = t.id }
    IN  \A id \in 1..(MaxId + 1) :
          /\ checkTourReadOnly(id) = decision(ofActivity(id))
          /\ checkTourReadOnlyByTourId(id) = decision(ofTour(id))
          /\ checkTourReadOnlyByDiscussionId(id) = decision(ofDiscussion(id))
          /\ checkTourReadOnlyByNoteId(id) =
                decision(UNION { ofActivity(n.activity_id) :
                                   n \in { x \in db.notes : x.id = id } })
          /\ checkTourReadOnlyByTeamId(id) = decision(ofTeam(id))
          /\ checkTourReadOnlyByTeamNoteId(id) =
                decision(UNION { ofTeam(dtn.team_id) :
                                   dtn \in { x \in db.discussion_team_notes : x.id = id } })
          /\ checkTourReadOnlyByMessageId(id) =
                decision(UNION { ofDiscussion(dm.discussion_id) :
                                   dm \in { x \in db.discussion_messages : x.id = id } })
          /\ checkTourReadOnlyByQuestionId(id) =
                decision(UNION { ofActivity(aq.activity_id) :
                                   aq \in { x \in db.activity_questions : x.id = id } })
          /\ checkTourReadOnlyByDiscussionQuestionId(id) =
                decision(UNION { ofActivity(dq.discussion_activity_id) :
                                   dq \in { x \in db.discussion_questions : x.id = id } })

\* a call of a gate function changes no stored state, and throws exactly
\* when its result is not success
C23_CallsChangeNothing ==
    [][lastReq'.op \in GateFunctions =>
          /\ db' = db
          /\ nextId' = nextId
          /\ lastReq'.thrown = "none" <=> lastReq'.gate = "Ok"]_vars

\* the longest chain (team note -> team -> activity -> tour) let a call
\* through exactly at now = end_date, while the chain of another function
\* resolves no row
C23_Witness ==
    /\ lastReq.op = "checkTourReadOnlyByTeamNoteId"
    /\ lastReq.gate = "Ok"
    /\ \A t \in db.tours : t.end_date = now
    /\ db.notes # {} /\ \E id \in IdInputs : checkTourReadOnlyByNoteId(id) = "NotFound"

(* ======================================================================= *)
(* C24: the per-question statistics (rating average and distribution,      *)
(* yes/no counts, option counts, response_count) count only answers that   *)
(* belong to completed responses: they are the statistics of the tables    *)
(* without the answers of responses with is_complete = false.              *)
(* ======================================================================= *)
C24_StatsOfCompletedOnly ==
    (lastCall.op = "getSurveyStats" /\ lastCall.status = 200) =>
        \A body \in lastCall.body :
            LET completed ==
                    [sdb EXCEPT !.survey_question_responses =
                       { a \in @ : \E r \in sdb.survey_responses :
                                      r.id = a.response_id /\ r.is_complete }]
            IN  \E firstRow \in FirstRows(completed, lastCall.survey) :
                    body.question_stats =
                        getSurveyResponseStats(completed, lastCall.survey,
                                               firstRow).question_stats

(* ======================================================================= *)
(* C25: for every stored state and every question of a survey, the summary *)
(* the aggregated responses give for the question (RATING: average and     *)
(* distribution; MULTIPLE_CHOICE / CHECKBOX: count and percentage of each  *)
(* option; YES_NO: yes_count and no_count) equals the summary the          *)
(* statistics give for that question.                                      *)
(* ======================================================================= *)
C25_AggregateEqualsStats ==
    (lastCall.op = "getAggregatedResponses" /\ lastCall.status = 200) =>
        \A body \in lastCall.body : \A ag \in body :
            \E firstRow \in FirstRows(sdb, lastCall.survey) :
                LET q == CHOOSE x \in sdb.survey_questions : x.id = ag.question_id
                    qs == questionStats(sdb, q, firstRow)
                    same(x, y) == x.num * y.den = y.num * x.den
                IN  /\ (qs.average_rating = {}) <=> (ag.stats.average = {})
                    /\ \A x \in qs.average_rating : \A y \in ag.stats.average :
                          same(x, y)
                    /\ qs.rating_distribution = ag.stats.distribution
                    /\ (qs.option_counts = {}) <=> (ag.stats.option_counts = {})
                    /\ \A x \in qs.option_counts : \A y \in ag.stats.option_counts :
                          /\ DOMAIN x = DOMAIN y
                          /\ \A id \in DOMAIN x :
                                /\ x[id].count = y[id].count
                                /\ same(x[id].percentage, y[id].percentage)
                    /\ qs.yes_count = ag.stats.yes_count
                    /\ qs.no_count = ag.stats.no_count


(* ---------------------- reading a user's response back ----------------- *)
\* getUserSurveyResponse: the user's survey_responses row with
\* response.responses set to the survey_question_responses rows of that
\* response, columns as stored; {} stands for the null it returns when the
\* user has no response
getUserSurveyResponse(tables, userId, surveyId) ==
    { [response |-> r, responses |-> AnswersOf(tables, r.id)] :
          r \in ExistingResponse(tables, surveyId, userId) }

\* the value slot an answer to a question of the given type is written to
SlotOfType(type) ==
    CASE type = "RATING" -> "rating_response"
      [] type = "NUMBER" -> "number_response"
      [] type = "DATE" -> "date_response"
      [] type \in {"MULTIPLE_CHOICE", "CHECKBOX"} -> "selected_option_ids"
      [] OTHER -> "text_response"

ValueSlots ==
    {"text_response", "number_response", "date_response", "selected_option_ids",
     "rating_response"}

\* the row read back for the answer holds the submitted value in the slot of
\* the question's type and null in every other slot
ReadsBack(tables, read, a) ==
    \A qn \in tables.survey_questions : qn.id = a.question_id =>
        \E row \in read.responses :
            /\ row.question_id = a.question_id
            /\ row[SlotOfType(qn.question_type)] = a[SlotOfType(qn.question_type)]
            /\ \A s \in ValueSlots \ {SlotOfType(qn.question_type)} : row[s] = {}

(* ======================================================================= *)
(* C26: after a successful submit or saveProgress of a body, reading the   *)
(* user's response back returns, for every question the body answers once, *)
(* exactly the submitted value in the slot of the question's type and null *)
(* in every other slot, for every value of the type (the number 0          *)
(* included).                                                              *)
(* ======================================================================= *)
C26_WriteReadRoundTrip ==
    [][\A u \in UserIds, sv \in SurveyIds, rs \in AuthPayloads :
         ( \/ submitSurveyResponse(u, sv, rs) /\ lastCall'.status = 201
           \/ saveSurveyProgress(u, sv, rs) /\ lastCall'.status = 200 )
         => /\ getUserSurveyResponse(sdb', u, sv) # {}
            /\ \A read \in getUserSurveyResponse(sdb', u, sv) :
                 \A i \in 1..Len(rs) :
                     (\A j \in 1..Len(rs) :
                          j # i => rs[j].question_id # rs[i].question_id)
                     => ReadsBack(sdb', read, rs[i])]_vars


(* ------------------ the statistics of a YES_NO question ---------------- *)
\* Tables with up to MaxYesNo complete responses to survey 1, whose only
\* question is the YES_NO question 1; each response answers it with one of
\* the texts clients send, or not at all.
MaxYesNo == 3

YesNoTexts == {"Yes", "No", "yes", "true"}

TextAnswer(q, t) == Answer(q, {t}, {}, {}, {}, {})

YesNoTables(texts) ==
    LET n == Len(texts)
    IN  [surveys |->
           { [id |-> sv, status |-> "ACTIVE", allow_public_access |-> FALSE,
              public_access_token |-> NULL, public_access_expires_at |-> NULL] :
             sv \in {1, 2} },
         survey_questions |-> {[id |-> 1, survey_id |-> 1, question_type |-> "YES_NO"]},
         survey_question_options |-> {},
         survey_responses |->
           { ResponseRow(i, 1, {StatUserNames[i]}, 0, TRUE, {}, FALSE) : i \in 1..n },
         survey_question_responses |->
           { AnswerRow(i, TextAnswer(1, CHOOSE t \in texts[i] : TRUE)) :
               i \in { j \in 1..n : texts[j] # {} } }]

InitYesNo ==
    /\ now = 0
    /\ db = InitDb
    /\ nextId = 1
    /\ lastReq = NoReq
    /\ \E n \in 0..MaxYesNo : \E texts \in [1..n -> Optional(YesNoTexts)] :
          /\ sdb = YesNoTables(texts)
          /\ respSeq = n + 1
    /\ tokenSeq = 1
    /\ lastCall = NoCall
    /\ proc = [p \in Procs |-> IdleProc]
    /\ conn = [c \in Conns |-> IdleConn]

SpecYesNo == InitYesNo /\ [][NextStats]_vars

\* the answers to a question whose text is the given string
TextIs(tables, questionId, text) ==
    { a \in AnswersTo(tables, questionId) : a.text_response = {text} }

(* ======================================================================= *)
(* C27: in the statistics of a YES_NO question, yes_count is the number of *)
(* answers whose text is exactly 'Yes', no_count the number whose text is  *)
(* exactly 'No', response_count the number of answers with a text, and     *)
(* yes_count + no_count <= response_count.                                 *)
(* ======================================================================= *)
C27_YesNoCounts ==
    (lastCall.op = "getSurveyStats" /\ lastCall.status = 200) =>
        \A body \in lastCall.body : \A qs \in body.question_stats :
            qs.question_type = "YES_NO" =>
                /\ qs.yes_count = {Cardinality(TextIs(sdb, qs.question_id, "Yes"))}
                /\ qs.no_count = {Cardinality(TextIs(sdb, qs.question_id, "No"))}
                /\ qs.response_count =
                       Cardinality({ a \in AnswersTo(sdb, qs.question_id) :
                                       a.text_response # {} })
                /\ \A y \in qs.yes_count : \A n \in qs.no_count :
                       y # NaN /\ n # NaN /\ y + n <= qs.response_count

\* the same counts, for the questions that have at least one answer with a text
C27_CountsWhenAnswered ==
    (lastCall.op = "getSurveyStats" /\ lastCall.status = 200) =>
        \A body \in lastCall.body : \A qs \in body.question_stats :
            (qs.question_type = "YES_NO" /\ qs.response_count > 0) =>
                /\ qs.yes_count = {Cardinality(TextIs(sdb, qs.question_id, "Yes"))}
                /\ qs.no_count = {Cardinality(TextIs(sdb, qs.question_id, "No"))}
                /\ \A y \in qs.yes_count : \A n \in qs.no_count :
                       y + n <= qs.response_count

\* a casing variant and a boolean text fall in neither bucket
C27_WitnessOutsideBuckets ==
    /\ lastCall.op = "getSurveyStats" /\ lastCall.status = 200
    /\ TextIs(sdb, 1, "yes") # {} /\ TextIs(sdb, 1, "true") # {}
    /\ TextIs(sdb, 1, "Yes") # {}
    /\ \E body \in lastCall.body : \E qs \in body.question_stats :
          qs.yes_count = {1} /\ qs.no_count = {0} /\ qs.response_count = 3


(* ------------- messages to the discussion of an activity --------------- *)
\* The state after the first message of activity 1 was posted and deleted
\* again: the discussion createActivityMessage created for the activity
\* exists, unlocked, and holds no message.
ThreadDb ==
    [InitDb EXCEPT !.discussions =
        {[id |-> 1, tour_id |-> 1, activity_id |-> 1, title |-> "activity",
          is_locked |-> FALSE]}]

InitThread ==
    /\ now = 0
    /\ db = ThreadDb
    /\ nextId = MaxId
    /\ lastReq = NoReq
    /\ sdb = InitSdb
    /\ respSeq = 1
    /\ tokenSeq = 1
    /\ lastCall = NoCall
    /\ proc = [p \in Procs |-> IdleProc]
    /\ conn = [c \in Conns |-> IdleConn]

NextThread ==
    \/ Tick
    \/ TourOps
    \/ \E id \in IdInputs, c \in Optional(Contents), l \in Optional(BOOLEAN) :
          updateDiscussion(id, c, l)
    \/ \E d \in IdInputs, u \in UserIds, c \in Contents : createMessage(d, u, c)
    \/ \E a \in ActivityIdInputs, u \in UserIds, c \in Contents :
          createActivityMessage(a, u, c)

SpecThread == InitThread /\ [][NextThread]_vars

(* ======================================================================= *)
(* C28: no message is added to a locked discussion: every step that        *)
(* inserts a discussion_messages row, through createMessage or through     *)
(* createActivityMessage, inserts it into a discussion that is not locked. *)
(* ======================================================================= *)
C28_NoMessageWhileLocked ==
    [][\A m \in db'.discussion_messages \ db.discussion_messages :
         \A d \in db.discussions : d.id = m.discussion_id => ~d.is_locked]_vars

\* createMessage alone keeps the rule
C28_CreateMessageRespectsLock ==
    [][lastReq'.op = "createMessage" =>
         \A m \in db'.discussion_messages \ db.discussion_messages :
            \A d \in db.discussions : d.id = m.discussion_id => ~d.is_locked]_vars

C28_WitnessLockedRejected ==
    /\ lastReq.op = "createMessage" /\ lastReq.thrown = "Discussion is locked"
    /\ \E d \in db.discussions : d.is_locked


(* ------- createActivityMessage, statement by statement, interleaved ---- *)
\* Each await of createActivityMessage is a point where another request can
\* run: the service opens no transaction and takes no lock.  A request slot
\* holds the call's arguments and the results of the statements it has run.
MaxPostId == 4

PostProc(pc, activityId, user_id, content, tour_id, discussionId) ==
    [pc |-> pc, op |-> "createActivityMessage", activityId |-> activityId,
     user_id |-> user_id, content |-> content, tour_id |-> tour_id,
     discussionId |-> discussionId]

\* SELECT a.title, a.tour_id, t.end_date .. WHERE a.id = $1, and the two throws
activityCheck(p, activityId, user_id, content) ==
    LET rows == { a \in db.activities : a.id = activityId }
        gate == checkTourReadOnly(activityId)
    IN  /\ proc[p] = IdleProc
        /\ IF rows = {}
             THEN /\ lastReq' = Req("createActivityMessage", "DiscussionMessage", gate,
                                    FALSE, "Activity not found",
                                    ReadOnlyCatch("Activity not found",
                                                  "Failed to create message"))
                  /\ UNCHANGED proc
           ELSE IF gate = "TourEnded"
             THEN /\ lastReq' = Req("createActivityMessage", "DiscussionMessage", gate,
                                    FALSE, TourEndedMessage,
                                    ReadOnlyCatch(TourEndedMessage,
                                                  "Failed to create message"))
                  /\ UNCHANGED proc
           ELSE /\ proc' = [proc EXCEPT ![p] =
                              PostProc("activityCheck", activityId, user_id, content,
                                       (CHOOSE a \in rows : TRUE).tour_id, {})]
                /\ lastReq' = NoReq
        /\ UNCHANGED <<now, db, nextId, sdb, respSeq, tokenSeq, lastCall, conn>>

\* SELECT id FROM discussions WHERE activity_id = $1; rows[0] is any of the
\* rows when there are several
existingDiscussion(p) ==
    LET rows == { d \in db.discussions : d.activity_id = proc[p].activityId }
    IN  /\ proc[p].pc = "activityCheck"
        /\ \/ /\ rows = {}
              /\ proc' = [proc EXCEPT ![p].pc = "existingDiscussion"]
           \/ \E d \in rows :
                 proc' = [proc EXCEPT ![p].pc = "existingDiscussion",
                                      ![p].discussionId = {d.id}]
        /\ lastReq' = NoReq
        /\ UNCHANGED <<now, db, nextId, sdb, respSeq, tokenSeq, lastCall, conn>>

\* INSERT INTO discussions (tour_id, activity_id, ..) RETURNING id, run when
\* the SELECT found no row
discussionResult(p) ==
    /\ proc[p].pc = "existingDiscussion"
    /\ proc[p].discussionId = {}
    /\ nextId <= MaxPostId
    /\ db' = [db EXCEPT !.discussions = @ \cup
                {[id |-> nextId, tour_id |-> proc[p].tour_id,
                  activity_id |-> proc[p].activityId,
                  title |-> "activity", is_locked |-> FALSE]}]
    /\ nextId' = nextId + 1
    /\ proc' = [proc EXCEPT ![p].discussionId = {nextId}]
    /\ lastReq' = NoReq
    /\ UNCHANGED <<now, sdb, respSeq, tokenSeq, lastCall, conn>>

\* INSERT INTO discussion_messages (discussion_id, ..) RETURNING *, and the
\* 201 response
messageResult(p) ==
    /\ proc[p].pc = "existingDiscussion"
    /\ proc[p].discussionId # {}
    /\ nextId <= MaxPostId
    /\ db' = [db EXCEPT !.discussion_messages = @ \cup
                {[id |-> nextId,
                  discussion_id |-> CHOOSE d \in proc[p].discussionId : TRUE,
                  user_id |-> proc[p].user_id, content |-> proc[p].content,
                  is_edited |-> FALSE]}]
    /\ nextId' = nextId + 1
    /\ proc' = [proc EXCEPT ![p] = IdleProc]
    /\ lastReq' = Req("createActivityMessage", "DiscussionMessage",
                      checkTourReadOnly(proc[p].activityId), TRUE, "none",
                      Response(201, "none"))
    /\ UNCHANGED <<now, sdb, respSeq, tokenSeq, lastCall, conn>>

\* getActivityMessages: the messages of rows[0] of the activity's discussions
getActivityMessages(activityId) ==
    LET rows == { d \in db.discussions : d.activity_id = activityId }
    IN  IF rows = {} THEN {{}}
        ELSE { { m \in db.discussion_messages : m.discussion_id = d.id } : d \in rows }

NextPosts ==
    \/ Tick
    \/ \E p \in Procs, a \in ActivityIdInputs, u \in UserIds, c \in Contents :
          activityCheck(p, a, u, c)
    \/ \E p \in Procs : existingDiscussion(p)
    \/ \E p \in Procs : discussionResult(p)
    \/ \E p \in Procs : messageResult(p)

SpecPosts == InitGate /\ [][NextPosts]_vars

\* the messages createActivityMessage has committed for an activity
MessagesOfActivity(activityId) ==
    { m \in db.discussion_messages :
        \E d \in db.discussions :
            d.id = m.discussion_id /\ d.activity_id = activityId }

(* ======================================================================= *)
(* C29: under every interleaving of createActivityMessage calls, an        *)
(* activity has at most one discussion created for it, and                 *)
(* getActivityMessages returns every message posted to the activity.       *)
(* ======================================================================= *)
C29_OneDiscussionPerActivity ==
    \A a \in ActivityIdInputs :
        /\ Cardinality({ d \in db.discussions : d.activity_id = a }) <= 1
        /\ \A read \in getActivityMessages(a) : read = MessagesOfActivity(a)


(* --------------------- the post-tour access window --------------------- *)
\* post_tour_access_days || 30: NULL and 0 both give 30
DefaultAccessDays == 30

AccessDaysOr30(column) ==
    IF column = {} \/ column = {0} THEN DefaultAccessDays
    ELSE CHOOSE n \in column : TRUE

\* checkPostTourAccess: false without the tour row, else
\* now <= end_date + (post_tour_access_days || 30) days
checkPostTourAccess(tourId) ==
    LET rows == { t \in db.tours : t.id = tourId }
    IN  /\ rows # {}
        /\ \A t \in rows : now <= t.end_date + AccessDaysOr30(t.post_tour_access_days)

\* outcome of a tour-side read: as Req, with the body of the response
\* ({} when the response is an error)
ReqBody(op, kind, res, body) ==
    [op |-> op, kind |-> kind, gate |-> "Ok", ok |-> res.status = 200,
     thrown |-> "none", status |-> res.status, error |-> res.error, body |-> body]

\* getDiscussionsByTour: the handler of GET /tours/:tourId/discussions
getDiscussionsByTour(tourId) ==
    /\ lastReq' =
         IF ~checkPostTourAccess(tourId)
           THEN ReqBody("getDiscussionsByTour", "Discussion",
                        Response(403, "Post-tour access period has expired"), {})
           ELSE ReqBody("getDiscussionsByTour", "Discussion", Response(200, "none"),
                        {{ d \in db.discussions : d.tour_id = tourId }})
    /\ UNCHANGED <<now, db, nextId, surveyVars>>

\* The clock values (in days) around the ends of the windows, the values of
\* the post_tour_access_days column ({} is NULL), and tables holding tour 1
\* with a discussion or without one.
AccessTimes == {0, 1, 2, 3, 30, 31, 32}

AccessDays == Optional({0, 1, 30})

AccessDb(end_date, days, discussed) ==
    [InitDb EXCEPT
       !.tours = {[id |-> 1, end_date |-> end_date, status |-> "Draft",
                   post_tour_access_days |-> days]},
       !.discussions =
           IF discussed
             THEN {[id |-> 1, tour_id |-> 1, activity_id |-> NULL, title |-> "a",
                    is_locked |-> FALSE]}
             ELSE {}]

InitAccess ==
    /\ now \in AccessTimes
    /\ \E e \in {0, 1}, days \in AccessDays, discussed \in BOOLEAN :
          db = AccessDb(e, days, discussed)
    /\ nextId = MaxId
    /\ lastReq = NoReq
    /\ sdb = InitSdb
    /\ respSeq = 1
    /\ tokenSeq = 1
    /\ lastCall = NoCall
    /\ proc = [p \in Procs |-> IdleProc]
    /\ conn = [c \in Conns |-> IdleConn]

NextAccess == \E t \in IdInputs : getDiscussionsByTour(t)

SpecAccess == InitAccess /\ [][NextAccess]_vars

\* the window the column configures: its value when set, 30 when it is NULL
ConfiguredDays(column) ==
    IF column = {} THEN DefaultAccessDays ELSE CHOOSE n \in column : TRUE

C30_WindowUnlessZero ==
    [][\A t \in IdInputs :
         (getDiscussionsByTour(t) /\ \A r \in db.tours : r.post_tour_access_days # {0}) =>
         LET allowed == \E r \in db.tours :
                           /\ r.id = t
                           /\ now <= r.end_date + ConfiguredDays(r.post_tour_access_days)
         IN  IF allowed
               THEN /\ lastReq'.status = 200
                    /\ lastReq'.body = {{ d \in db.discussions : d.tour_id = t }}
               ELSE /\ lastReq'.status = 403
                    /\ lastReq'.error = "Post-tour access period has expired"
                    /\ lastReq'.body = {}]_vars

C30_WitnessExpired ==
    /\ lastReq.op = "getDiscussionsByTour" /\ lastReq.status = 403
    /\ \E r \in db.tours : r.post_tour_access_days = {1} /\ now = r.end_date + 2

C30_WitnessLastDay ==
    /\ lastReq.op = "getDiscussionsByTour" /\ lastReq.status = 200
    /\ \E r \in db.tours : r.post_tour_access_days = {} /\ now = r.end_date + 30
    /\ lastReq.body # {{}}

====
